---- MODULE Spec2Model ----
(***************************************************************************)
(* A model of the labelle label-printing core: tape geometry of a          *)
(* DymoLabeler, the margins placement algorithm, horizontal composition of *)
(* bitmaps, the LW550 structured command builders and status commands, the *)
(* legacy LabelManager wire protocol, the BLE message framing, the setup   *)
(* of a USB device, the rendering of barcodes and the device manager.      *)
(*                                                                         *)
(* Lengths in millimetres that the program keeps as floats are kept here   *)
(* in tenths of a millimetre, so that 8.2 mm is the integer 82.            *)
(***************************************************************************)
EXTENDS Integers, Sequences, FiniteSets, TLC

VARIABLES
    \* DymoLabeler (lib/devices/dymo_labeler.py)
    device_config,      \* DymoLabeler.device_config
    tape_size_mm,       \* DymoLabeler.tape_size_mm
    tape_result,        \* what the last read of the tape geometry returned
    \* MarginsRenderEngine (lib/render_engines/margins.py)
    dev_mode_no_margins,  \* env_config.is_dev_mode_no_margins() at construction
    margins_args,       \* the arguments the two engines were constructed with
    margins_engine,     \* the fields both engines hold after __init__
    payload_bitmap,     \* the bitmap the inner render engine renders
    preview_result,     \* last result of the preview engine's render_with_meta
    print_result,       \* last result of PrintPayloadRenderEngine.render_with_meta
    \* HorizontallyCombinedRenderEngine (lib/render_engines/horizontally_combined.py)
    context,            \* the RenderContext of the render call
    render_engines,     \* the child engines, each as the bitmap it renders
    padding,            \* HorizontallyCombinedRenderEngine.padding
    combined_result,    \* last result of HorizontallyCombinedRenderEngine.render
    \* LW550 command builders (lib/devices/dymo_labeler_550*.py)
    labels,             \* the list of LabelData of the print job
    job_id,             \* the job id of the print job
    job_result,         \* last result of label_print_job(labels, job_id)
    command_result,     \* last single command built, with the call that built it
    \* CommandGetSkuInformation (lib/devices/dymo_labeler_550_command_with_response.py)
    sku_tries,          \* _tries of retry_call: the attempts still allowed
    sku_wire,           \* what execute has written to devout and read from devin
    sku_result,         \* how CommandGetSkuInformation.execute ended, if it has
    response_result,    \* last response decoded on its own, with its decoder
    \* DymoLabelerFunctions and DymoLabeler.print (lib/devices/dymo_labeler.py)
    functions,          \* the fields of the DymoLabelerFunctions object
    wire,               \* what has been written to devout and read from devin
    device,             \* DymoLabeler._device: "none", "open" or "disposed"
    bitmap,             \* the label bitmap handed to DymoLabeler.print
    call_result,        \* how the last call on the object or on print ended
    \* BleDevice (lib/devices/ble_device.py)
    ble_body,           \* the cmd handed to BleDevice._execute_command
    ble_header,         \* last result of BleDevice.get_header(ble_body)
    ble_client,         \* BleDevice._client: is_connected and mtu_size
    ble_wire,           \* the connects, GATT writes and reads made, in order
    ble_result,         \* how BleDevice._execute_command ended, if it has
    \* UsbDevice (lib/devices/usb_device.py)
    usb_dev,            \* the USB device and what the system reports of it
    usb_device,         \* the fields _intf, _devin and _devout of the UsbDevice
    usb_calls,          \* how each call of setup ended and what it left
    \* BarcodeRenderEngine (lib/render_engines/barcode.py, lib/barcode_to_image.py)
    barcode_line,       \* the line handed to _list_of_runs
    runs_result,        \* last result of _list_of_runs(barcode_line)
    barcode_engine,     \* the fields content and barcode_type of the engine
    render_results,     \* what each render of the engines returned, in order
    \* DeviceManager, OnlineDeviceManager (lib/devices/device_manager.py)
    dm_devices,         \* DeviceManager._devices: the device held under a hash
    scan_result,        \* how the last DeviceManager.scan ended
    last_scan_error,    \* OnlineDeviceManager._last_scan_error: None or a text
    refresh_result      \* what the last _refresh_devices found, left and emitted

tape_vars == <<device_config, tape_size_mm, tape_result>>

margins_vars == <<dev_mode_no_margins, margins_args, margins_engine,
                  payload_bitmap, preview_result, print_result>>

combined_vars == <<context, render_engines, padding, combined_result>>

job_vars == <<labels, job_id, job_result, command_result>>

sku_vars == <<sku_tries, sku_wire, sku_result, response_result>>

functions_vars == <<functions, wire, device, bitmap, call_result>>

ble_vars == <<ble_body, ble_header, ble_client, ble_wire, ble_result>>

usb_vars == <<usb_dev, usb_device, usb_calls>>

barcode_vars == <<barcode_line, runs_result, barcode_engine, render_results>>

manager_vars == <<dm_devices, scan_result, last_scan_error, refresh_result>>

vars == <<tape_vars, margins_vars, combined_vars, job_vars, sku_vars,
          functions_vars, ble_vars, usb_vars, barcode_vars, manager_vars>>

NoResult == [status |-> "none"]

\* A component that a specification does not exercise stays unconstructed.
Unused == [status |-> "unused"]

TapeIdle ==
    /\ device_config = Unused
    /\ tape_size_mm = 0
    /\ tape_result = NoResult

MarginsIdle ==
    /\ dev_mode_no_margins = FALSE
    /\ margins_args = Unused
    /\ margins_engine = Unused
    /\ payload_bitmap = Unused
    /\ preview_result = NoResult
    /\ print_result = NoResult

CombinedIdle ==
    /\ context = Unused
    /\ render_engines = <<>>
    /\ padding = 0
    /\ combined_result = NoResult

JobIdle ==
    /\ labels = <<>>
    /\ job_id = 0
    /\ job_result = NoResult
    /\ command_result = NoResult

SkuIdle ==
    /\ sku_tries = 0
    /\ sku_wire = <<>>
    /\ sku_result = NoResult
    /\ response_result = NoResult

FunctionsIdle ==
    /\ functions = Unused
    /\ wire = <<>>
    /\ device = "none"
    /\ bitmap = Unused
    /\ call_result = NoResult

BleIdle ==
    /\ ble_body = <<>>
    /\ ble_header = NoResult
    /\ ble_client = Unused
    /\ ble_wire = <<>>
    /\ ble_result = NoResult

UsbIdle ==
    /\ usb_dev = Unused
    /\ usb_device = Unused
    /\ usb_calls = <<>>

BarcodeIdle ==
    /\ barcode_line = <<>>
    /\ runs_result = NoResult
    /\ barcode_engine = Unused
    /\ render_results = <<>>

ManagerIdle ==
    /\ dm_devices = <<>>
    /\ scan_result = NoResult
    /\ last_scan_error = {}
    /\ refresh_result = NoResult

\* The device-side components, the barcode renderer and the device manager,
\* none of them constructed
DevicesIdle ==
    /\ SkuIdle /\ FunctionsIdle /\ BleIdle /\ UsbIdle /\ BarcodeIdle
    /\ ManagerIdle

devices_vars == <<sku_vars, functions_vars, ble_vars, usb_vars, barcode_vars,
                  manager_vars>>

(***************************************************************************)
(* Arithmetic helpers                                                      *)
(***************************************************************************)
Max2(a, b) == IF a >= b THEN a ELSE b

\* Python's round(x / 2, 0) for an integer x: round half to even.
RoundHalfOfToEven(x) ==
    LET q == x \div 2
    IN  IF x % 2 = 0 THEN q
        ELSE IF q % 2 = 0 THEN q ELSE q + 1

(***************************************************************************)
(* DeviceConfig and the tape geometry                                      *)
(***************************************************************************)
\* Print head widths in pixels of the supported products.
PrintHeadWidthsPx == {64, 128}

MaxPrintHeadMm == 18

\* Active print head widths, in tenths of a millimetre: whole millimetres
\* (the documented example is 128 pixels over 18 mm) and two fractional ones.
PrintHeadActiveAreasMm10 ==
    {10 * mm : mm \in 8 .. MaxPrintHeadMm} \cup {82, 181}

\* DeviceConfig.TAPE_ALIGNMENT_INACCURACY_MM, in tenths of a millimetre.
TAPE_ALIGNMENT_INACCURACY_MM10 == 10

\* The supported tape size lists of the supported products.
SupportedTapeSizeLists == {{6, 9, 12}, {6, 9, 12, 19}, {6, 9, 12, 19, 24}}

AllTapeSizesMm == UNION SupportedTapeSizeLists

DeviceConfigs ==
    [print_head_px : PrintHeadWidthsPx,
     print_head_mm10 : PrintHeadActiveAreasMm10,
     tape_alignment_inaccuracy_mm10 : {TAPE_ALIGNMENT_INACCURACY_MM10},
     supported_tape_sizes_mm : SupportedTapeSizeLists]

\* usable tape height in tenths of a millimetre (*2 for top and bottom)
UsableTapeHeightMm10(cfg, tape) ==
    tape * 10 - 2 * cfg.tape_alignment_inaccuracy_mm10

\* The number of active pixels for the tape, rounded down.
UsablePixelsFloor(cfg, tape) ==
    LET usable_mm10 == UsableTapeHeightMm10(cfg, tape)
    IN  IF usable_mm10 >= cfg.print_head_mm10
        THEN cfg.print_head_px
        ELSE (cfg.print_head_px * usable_mm10) \div cfg.print_head_mm10

MarginTop(cfg, tape) ==
    RoundHalfOfToEven(cfg.print_head_px - UsablePixelsFloor(cfg, tape))

\* A slip that keeps the rounded-down pixel count instead of compensating.
CompensatedHeightPx_Uncompensated(cfg, tape, margin_top, margin_bottom) ==
    UsablePixelsFloor(cfg, tape)

\* "Make sure the total is the exact amount of pixels of the printhead"
CompensatedHeightPx(cfg, tape, margin_top, margin_bottom) ==
    cfg.print_head_px - (margin_top + margin_bottom)

\* A slip that computes the geometry without looking at the supported list.
tape_print_properties_AcceptsAnySize(cfg, tape) ==
    LET margin_top == MarginTop(cfg, tape)
        margin_bottom == margin_top
    IN  [status |-> "ok",
         usable_tape_height_px |->
             CompensatedHeightPx(cfg, tape, margin_top, margin_bottom),
         top_margin_px |-> margin_top,
         bottom_margin_px |-> margin_bottom]

\* DymoLabeler.tape_print_properties
tape_print_properties(cfg, tape) ==
    IF tape \notin cfg.supported_tape_sizes_mm
    THEN [status |-> "ValueError"]
    ELSE LET margin_top == MarginTop(cfg, tape)
             margin_bottom == margin_top
         IN  [status |-> "ok",
              usable_tape_height_px |->
                  CompensatedHeightPx(cfg, tape, margin_top, margin_bottom),
              top_margin_px |-> margin_top,
              bottom_margin_px |-> margin_bottom]

\* DeviceConfig.get_tape_print_size_and_margins_px
get_tape_print_size_and_margins_px(cfg, tape) ==
    IF tape \in cfg.supported_tape_sizes_mm
    THEN LET margin_top == MarginTop(cfg, tape)
             margin_bottom == margin_top
         IN  [status |-> "ok",
              usable_tape_height_px |->
                  CompensatedHeightPx(cfg, tape, margin_top, margin_bottom),
              top_margin_px |-> margin_top,
              bottom_margin_px |-> margin_bottom]
    ELSE [status |-> "ValueError"]

\* DymoLabeler.__init__: the device's configuration is selected and the tape
\* size is the given one, or the largest supported one when none is given;
\* an unsupported tape size fails the construction.
TapeConstructed ==
    /\ device_config \in DeviceConfigs
    /\ \E given \in AllTapeSizesMm \cup {0} :
          LET size == IF given = 0
                      THEN CHOOSE s \in device_config.supported_tape_sizes_mm :
                               \A t \in device_config.supported_tape_sizes_mm : t <= s
                      ELSE given
          IN  /\ size \in device_config.supported_tape_sizes_mm
              /\ tape_size_mm = size
    /\ tape_result = NoResult

\* Reading the property DymoLabeler.tape_print_properties
ReadTapePrintProperties ==
    /\ tape_result' = tape_print_properties(device_config, tape_size_mm)
    /\ UNCHANGED <<device_config, tape_size_mm, margins_vars, combined_vars,
                   job_vars, devices_vars>>

\* DeviceConfig.get_tape_print_size_and_margins_px(tape_size_mm) on the
\* current configuration, for any tape size a caller passes
GetTapePrintSizeAndMarginsPx ==
    /\ \E tape \in AllTapeSizesMm :
          tape_result' = get_tape_print_size_and_margins_px(device_config, tape)
    /\ UNCHANGED <<device_config, tape_size_mm, margins_vars, combined_vars,
                   job_vars, devices_vars>>

\* The settings toolbar assigns DymoLabeler.tape_size_mm directly.
SetTapeSize ==
    /\ \E size \in device_config.supported_tape_sizes_mm :
          tape_size_mm' = size
    /\ tape_result' = NoResult
    /\ UNCHANGED <<device_config, margins_vars, combined_vars, job_vars, devices_vars>>

\* DymoLabeler.set_device: the configuration of the new device replaces the
\* current one; the tape size is left as it is.
set_device ==
    /\ device_config' \in DeviceConfigs
    /\ tape_result' = NoResult
    /\ UNCHANGED <<tape_size_mm, margins_vars, combined_vars, job_vars, devices_vars>>

\* The tape_size_mm argument of DymoLabeler(...): None or a size
GivenTapeSizesMm == {{}} \cup {{size} : size \in AllTapeSizesMm}

\* DymoLabeler.__init__ on the configuration of the device it is given
DymoLabeler_init(cfg, given) ==
    LET tape_size ==
            IF given = {}
            THEN \* max(self.device_config.supported_tape_sizes_mm)
                 CHOOSE s \in cfg.supported_tape_sizes_mm :
                     \A t \in cfg.supported_tape_sizes_mm : t <= s
            ELSE CHOOSE size \in given : TRUE
    IN  IF tape_size \notin cfg.supported_tape_sizes_mm
        THEN [status |-> "ValueError"]
        ELSE [status |-> "constructed", device_config |-> cfg,
              tape_size_mm |-> tape_size]

\* DymoLabeler(tape_size_mm, device): the application replaces its labeler
\* by the new object; when the constructor raises there is no new object
\* and the application keeps the labeler it had.
NewDymoLabeler ==
    /\ \E cfg \in DeviceConfigs, given \in GivenTapeSizesMm :
          LET made == DymoLabeler_init(cfg, given)
          IN  /\ tape_result' =
                     [status |-> made.status,
                      constructor |->
                          [tape_size_mm |-> given,
                           supported_tape_sizes_mm |->
                               cfg.supported_tape_sizes_mm]]
              /\ IF made.status = "constructed"
                 THEN /\ device_config' = made.device_config
                      /\ tape_size_mm' = made.tape_size_mm
                 ELSE UNCHANGED <<device_config, tape_size_mm>>
    /\ UNCHANGED <<margins_vars, combined_vars, job_vars, devices_vars>>

TapeNext ==
    \/ ReadTapePrintProperties
    \/ GetTapePrintSizeAndMarginsPx
    \/ SetTapeSize
    \/ set_device
    \/ NewDymoLabeler

TapeInit ==
    TapeConstructed /\ MarginsIdle /\ CombinedIdle /\ JobIdle /\ DevicesIdle

SpecTape == TapeInit /\ [][TapeNext]_vars

(***************************************************************************)
(* C1: for every device configuration and every tape size in its supported *)
(* list, the tape geometry returned has top margin + usable tape height +  *)
(* bottom margin equal to the print head width in pixels.                  *)
(***************************************************************************)
TapeMarginsSumToPrintHead ==
    tape_result.status = "ok" =>
        tape_result.top_margin_px + tape_result.usable_tape_height_px
            + tape_result.bottom_margin_px = device_config.print_head_px

\* A supported tape whose rounded-down pixel count leaves an odd remainder,
\* so that the two equal margins cannot split it exactly.
TapeMarginsSumWitness ==
    /\ tape_size_mm \in device_config.supported_tape_sizes_mm
    /\ tape_result = tape_print_properties(device_config, tape_size_mm)
    /\ tape_result.status = "ok"
    /\ (device_config.print_head_px
          - UsablePixelsFloor(device_config, tape_size_mm)) % 2 = 1
    /\ tape_result.top_margin_px > 0

(***************************************************************************)
(* C26: an unsupported tape size is rejected with a ValueError at once:    *)
(* constructing a DymoLabeler with a tape size that is not in the device's *)
(* supported list fails and constructs nothing, and reading                *)
(* tape_print_properties fails whenever tape_size_mm is not in the current *)
(* configuration's supported list.                                         *)
(***************************************************************************)
UnsupportedTapeSizeRejected ==
    [][/\ ReadTapePrintProperties =>
              (tape_size_mm \notin device_config.supported_tape_sizes_mm
                   => tape_result' = [status |-> "ValueError"])
       /\ (/\ tape_result' # tape_result
           /\ "constructor" \in DOMAIN tape_result'
           /\ \E size \in tape_result'.constructor.tape_size_mm :
                  size \notin
                      tape_result'.constructor.supported_tape_sizes_mm)
              => /\ tape_result'.status = "ValueError"
                 /\ UNCHANGED <<device_config, tape_size_mm>>]_vars

\* The device was replaced by one that does not take the selected tape, and
\* the geometry was read.
UnsupportedTapeSizeRejectedWitness ==
    /\ tape_size_mm \notin device_config.supported_tape_sizes_mm
    /\ tape_result = [status |-> "ValueError"]

(***************************************************************************)
(* MarginsRenderEngine: the placement algorithm                            *)
(***************************************************************************)
MaxPayloadWidthPx == 3
MaxPayloadHeightPx == 2
MaxVisibleMarginPx == 2
MaxLabelerMarginPx == 1
MaxMinWidthPx == 4
MaxMaxWidthPx == 5

Direction == {"left", "center", "right"}

PayloadWidthsPx == (0 .. MaxPayloadWidthPx) \cup {100, 500}
PayloadHeightsPx == 1 .. MaxPayloadHeightPx
VisibleMarginsPx == (0 .. MaxVisibleMarginPx) \cup {10, 20}
LabelerMarginsPx == 0 .. MaxLabelerMarginPx
MinWidthsPx == (0 .. MaxMinWidthPx) \cup {200}
\* An optional integer is the empty set (None) or a singleton.
MaxWidthsPx == {{}} \cup {{n} : n \in (0 .. MaxMaxWidthPx) \cup {400}}

MarginsArguments ==
    [justify : Direction,
     visible_horizontal_margin_px : VisibleMarginsPx,
     labeler_margin_px : [horizontal : LabelerMarginsPx,
                          vertical : LabelerMarginsPx],
     max_width_px : MaxWidthsPx,
     min_width_px : MinWidthsPx]

\* The assertions of MarginsRenderEngine.__init__
MarginsArgumentsAccepted(args) ==
    /\ args.visible_horizontal_margin_px >= 0
    /\ args.labeler_margin_px.horizontal >= 0
    /\ args.labeler_margin_px.vertical >= 0
    /\ \A m \in args.max_width_px : m = 0 \/ m >= 0
    /\ args.min_width_px >= 0

\* A slip that lets the switch zero the vertical labeler margin as well.
MarginsRenderEngine_ZeroesVertical(args, no_margins) ==
    [justify |-> args.justify,
     visible_horizontal_margin_px |->
         IF no_margins THEN 0 ELSE args.visible_horizontal_margin_px,
     min_width_px |-> IF no_margins THEN 0 ELSE args.min_width_px,
     label_margins_px |->
         [horizontal |-> IF no_margins THEN 0
                         ELSE args.labeler_margin_px.horizontal,
          vertical |-> IF no_margins THEN 0
                       ELSE args.labeler_margin_px.vertical],
     max_width_px |-> args.max_width_px]

\* MarginsRenderEngine.__init__: the fields the engine keeps
MarginsRenderEngine(args, no_margins) ==
    [justify |-> args.justify,
     visible_horizontal_margin_px |->
         IF no_margins THEN 0 ELSE args.visible_horizontal_margin_px,
     min_width_px |-> IF no_margins THEN 0 ELSE args.min_width_px,
     label_margins_px |->
         [horizontal |-> IF no_margins THEN 0
                         ELSE args.labeler_margin_px.horizontal,
          vertical |-> args.labeler_margin_px.vertical],
     max_width_px |-> args.max_width_px]

\* A slip that compares the minimum width with the payload alone.
calculate_visible_width_MinAgainstPayload(engine, payload_width_px) ==
    LET minimal_label_width_px ==
            payload_width_px + engine.visible_horizontal_margin_px * 2
    IN  IF \E m \in engine.max_width_px : minimal_label_width_px > m
        THEN [status |-> "BitmapTooBigError",
              width_px |-> minimal_label_width_px,
              max_width_px |-> CHOOSE m \in engine.max_width_px : TRUE]
        ELSE [status |-> "ok",
              label_width_px |->
                  IF engine.min_width_px > payload_width_px
                  THEN engine.min_width_px
                  ELSE minimal_label_width_px]

\* A slip that rejects a label that exactly fills the maximum width.
calculate_visible_width_RejectsExactFit(engine, payload_width_px) ==
    LET minimal_label_width_px ==
            payload_width_px + engine.visible_horizontal_margin_px * 2
    IN  IF \E m \in engine.max_width_px : minimal_label_width_px >= m
        THEN [status |-> "BitmapTooBigError",
              width_px |-> minimal_label_width_px,
              max_width_px |-> CHOOSE m \in engine.max_width_px : TRUE]
        ELSE [status |-> "ok",
              label_width_px |->
                  IF engine.min_width_px > minimal_label_width_px
                  THEN engine.min_width_px
                  ELSE minimal_label_width_px]

\* MarginsRenderEngine._calculate_visible_width
calculate_visible_width(engine, payload_width_px) ==
    LET minimal_label_width_px ==
            payload_width_px + engine.visible_horizontal_margin_px * 2
    IN  IF \E m \in engine.max_width_px : minimal_label_width_px > m
        THEN [status |-> "BitmapTooBigError",
              width_px |-> minimal_label_width_px,
              max_width_px |-> CHOOSE m \in engine.max_width_px : TRUE]
        ELSE [status |-> "ok",
              label_width_px |->
                  IF engine.min_width_px > minimal_label_width_px
                  THEN engine.min_width_px
                  ELSE minimal_label_width_px]

\* A slip that right-justifies against the whole padding.
JustifiedOffsetPx_RightIgnoresMargin(justify, padding_px, visible_margin_px) ==
    IF justify = "left" THEN {visible_margin_px}
    ELSE IF justify = "center" THEN {padding_px \div 2}
    ELSE IF justify = "right" THEN {padding_px}
    ELSE {}

\* The offset by justification; no offset (ValueError) for any other value.
JustifiedOffsetPx(justify, padding_px, visible_margin_px) ==
    IF justify = "left" THEN {visible_margin_px}
    ELSE IF justify = "center" THEN {padding_px \div 2}
    ELSE IF justify = "right" THEN {padding_px - visible_margin_px}
    ELSE {}

\* A slip that applies the cutter correction in both modes.
ModeOffsetPx_AlwaysCorrected(mode, horizontal_offset_px, label_margins_px) ==
    horizontal_offset_px - label_margins_px.horizontal

\* "print head is already in offset from label's edge under the cutter"
ModeOffsetPx(mode, horizontal_offset_px, label_margins_px) ==
    IF mode = "print"
    THEN horizontal_offset_px - label_margins_px.horizontal
    ELSE horizontal_offset_px

\* MarginsRenderEngine.render_with_meta
render_with_meta(mode, engine, payload) ==
    LET payload_width_px == payload.width
        visible == calculate_visible_width(engine, payload_width_px)
    IN  IF visible.status # "ok" THEN visible
        ELSE
        LET label_width_px == visible.label_width_px
            padding_px == label_width_px - payload_width_px
            justified == JustifiedOffsetPx(engine.justify, padding_px,
                             engine.visible_horizontal_margin_px)
        IN  IF justified = {} THEN [status |-> "ValueError"]
            ELSE
            LET horizontal_offset_px == CHOOSE o \in justified : TRUE
            IN  IF ~(horizontal_offset_px >= engine.visible_horizontal_margin_px)
                THEN [status |-> "AssertionError"]
                ELSE
                LET offset_px == ModeOffsetPx(mode, horizontal_offset_px,
                                     engine.label_margins_px)
                    bitmap_height ==
                        payload.height + engine.label_margins_px.vertical * 2
                IN  [status |-> "ok",
                     bitmap |-> [width |-> label_width_px,
                                 height |-> bitmap_height],
                     paste_box |-> <<offset_px, engine.label_margins_px.vertical>>,
                     horizontal_offset_px |-> offset_px,
                     vertical_offset_px |-> engine.label_margins_px.vertical]

\* A preview MarginsRenderEngine and a PrintPayloadRenderEngine are built from
\* the same arguments around the same payload engine.
MarginsConstructed ==
    /\ dev_mode_no_margins \in BOOLEAN
    /\ margins_args \in MarginsArguments
    /\ MarginsArgumentsAccepted(margins_args)
    /\ margins_engine = MarginsRenderEngine(margins_args, dev_mode_no_margins)
    /\ payload_bitmap \in [width : PayloadWidthsPx, height : PayloadHeightsPx]
    /\ preview_result = NoResult
    /\ print_result = NoResult

\* MarginsRenderEngine(mode="preview").render_with_meta(context)
RenderPreview ==
    /\ preview_result' = render_with_meta("preview", margins_engine, payload_bitmap)
    /\ UNCHANGED <<dev_mode_no_margins, margins_args, margins_engine,
                   payload_bitmap, print_result, tape_vars, combined_vars,
                   job_vars, devices_vars>>

\* PrintPayloadRenderEngine.render_with_meta(context)
RenderPrint ==
    /\ print_result' = render_with_meta("print", margins_engine, payload_bitmap)
    /\ UNCHANGED <<dev_mode_no_margins, margins_args, margins_engine,
                   payload_bitmap, preview_result, tape_vars, combined_vars,
                   job_vars, devices_vars>>

MarginsNext ==
    \/ RenderPreview
    \/ RenderPrint

MarginsInit ==
    MarginsConstructed /\ TapeIdle /\ CombinedIdle /\ JobIdle /\ DevicesIdle

SpecMargins == MarginsInit /\ [][MarginsNext]_vars

\* The results of the two engines that have rendered.
MarginsResults == {preview_result, print_result} \ {NoResult}

\* payload_width_px + 2 * visible_horizontal_margin_px of the engine
MinimalLabelWidthPx ==
    payload_bitmap.width + 2 * margins_engine.visible_horizontal_margin_px

(***************************************************************************)
(* C2: for every justify value, payload width, visible margin and minimum  *)
(* width for which no maximum width is exceeded, the horizontal offset     *)
(* computed by render_with_meta is at least the engine's                   *)
(* visible_horizontal_margin_px (at least 0 when that margin is 0), so the *)
(* assertion on the offset never fails.  In print mode the offset reported *)
(* is the computed one less the horizontal labeler margin.                 *)
(***************************************************************************)
OffsetAtLeastVisibleMargin ==
    /\ \A r \in MarginsResults : r.status # "AssertionError"
    /\ preview_result.status = "ok" =>
           /\ preview_result.horizontal_offset_px
                  >= margins_engine.visible_horizontal_margin_px
           /\ preview_result.horizontal_offset_px >= 0
    /\ print_result.status = "ok" =>
           print_result.horizontal_offset_px
               + margins_engine.label_margins_px.horizontal
                  >= margins_engine.visible_horizontal_margin_px

\* A centred payload padded out by the minimum width to an odd padding.
OffsetAtLeastVisibleMarginWitness ==
    /\ preview_result.status = "ok"
    /\ print_result.status = "ok"
    /\ margins_engine.justify = "center"
    /\ margins_engine.visible_horizontal_margin_px > 0
    /\ margins_engine.min_width_px > MinimalLabelWidthPx
    /\ (margins_engine.min_width_px - payload_bitmap.width) % 2 = 1

(***************************************************************************)
(* C3: render_with_meta fails with BitmapTooBigError exactly when a        *)
(* maximum width is set and payload width + 2 * visible margin exceeds it; *)
(* the error carries the computed width and the limit (payload 500, margin *)
(* 10, maximum 400 gives 520 and 400) and no bitmap is returned.           *)
(***************************************************************************)
BitmapTooBigExactlyWhenOverMax ==
    \A r \in MarginsResults :
        /\ r.status = "BitmapTooBigError" <=>
               \E m \in margins_engine.max_width_px : MinimalLabelWidthPx > m
        /\ r.status = "BitmapTooBigError" =>
               /\ r.width_px = MinimalLabelWidthPx
               /\ {r.max_width_px} = margins_engine.max_width_px
               /\ "bitmap" \notin DOMAIN r
        /\ ( /\ payload_bitmap.width = 500
             /\ margins_engine.visible_horizontal_margin_px = 10
             /\ margins_engine.max_width_px = {400} ) =>
               /\ r.status = "BitmapTooBigError"
               /\ r.width_px = 520
               /\ r.max_width_px = 400

\* The oversize example has been rejected.
BitmapTooBigWitness ==
    /\ payload_bitmap.width = 500
    /\ margins_engine.visible_horizontal_margin_px = 10
    /\ margins_engine.max_width_px = {400}
    /\ preview_result.status = "BitmapTooBigError"
    /\ print_result.status = "BitmapTooBigError"

(***************************************************************************)
(* C4: whenever render_with_meta succeeds, in print and in preview mode,   *)
(* the canvas width is max(payload width + 2 * visible margin, minimum     *)
(* width): payload 100 and margin 20 give 140 with minimum width 0 and 200 *)
(* (padding 100) with minimum width 200.                                   *)
(***************************************************************************)
CanvasWidthIsMaxOfMinimalAndMinWidth ==
    \A r \in MarginsResults :
        r.status = "ok" =>
            /\ r.bitmap.width =
                   Max2(MinimalLabelWidthPx, margins_engine.min_width_px)
            /\ ( /\ payload_bitmap.width = 100
                 /\ margins_engine.visible_horizontal_margin_px = 20 ) =>
                   /\ margins_engine.min_width_px = 0 => r.bitmap.width = 140
                   /\ margins_engine.min_width_px = 200 =>
                          /\ r.bitmap.width = 200
                          /\ r.bitmap.width - payload_bitmap.width = 100

\* A payload narrower than the minimum width but whose margins reach past it.
CanvasWidthWitness ==
    /\ preview_result.status = "ok"
    /\ print_result.status = "ok"
    /\ margins_engine.min_width_px > payload_bitmap.width
    /\ margins_engine.min_width_px < MinimalLabelWidthPx
    /\ preview_result.bitmap.width = MinimalLabelWidthPx

(***************************************************************************)
(* C5: in preview mode the reported horizontal_offset_px is the visible    *)
(* margin for left, padding_px / 2 rounded down for center and padding_px  *)
(* less the visible margin for right, padding_px being the label width     *)
(* less the payload width; payload 100 with margin 20 gives 20, 20, 20     *)
(* with minimum width 0 and 20, 50, 80 with minimum width 200.             *)
(***************************************************************************)
PreviewOffsetByJustify ==
    preview_result.status = "ok" =>
        LET padding_px == preview_result.bitmap.width - payload_bitmap.width
            visible == margins_engine.visible_horizontal_margin_px
            offset == preview_result.horizontal_offset_px
            justify == margins_engine.justify
        IN  /\ justify = "left" => offset = visible
            /\ justify = "center" => offset = padding_px \div 2
            /\ justify = "right" => offset = padding_px - visible
            /\ (payload_bitmap.width = 100 /\ visible = 20
                    /\ margins_engine.min_width_px = 0) => offset = 20
            /\ (payload_bitmap.width = 100 /\ visible = 20
                    /\ margins_engine.min_width_px = 200) =>
                   offset = CASE justify = "left" -> 20
                              [] justify = "center" -> 50
                              [] justify = "right" -> 80

\* The asymmetric example, right-justified.
PreviewOffsetWitness ==
    /\ preview_result.status = "ok"
    /\ payload_bitmap.width = 100
    /\ margins_engine.visible_horizontal_margin_px = 20
    /\ margins_engine.min_width_px = 200
    /\ margins_engine.justify = "right"
    /\ preview_result.horizontal_offset_px = 80

(***************************************************************************)
(* C6: for the same payload and the same engine parameters, print mode and *)
(* preview mode end alike, return canvases of the same width and height    *)
(* and the same vertical_offset_px, and the print-mode horizontal offset   *)
(* is the preview-mode one less the engine's horizontal labeler margin.    *)
(***************************************************************************)
PrintMatchesPreviewUpToCutterOffset ==
    (preview_result # NoResult /\ print_result # NoResult) =>
        /\ print_result.status = preview_result.status
        /\ preview_result.status = "ok" =>
               /\ print_result.bitmap = preview_result.bitmap
               /\ print_result.bitmap.height =
                      payload_bitmap.height
                          + 2 * margins_engine.label_margins_px.vertical
               /\ print_result.vertical_offset_px =
                      preview_result.vertical_offset_px
               /\ print_result.horizontal_offset_px =
                      preview_result.horizontal_offset_px
                          - margins_engine.label_margins_px.horizontal

\* Both modes have rendered with non-zero labeler margins.
PrintMatchesPreviewWitness ==
    /\ preview_result.status = "ok"
    /\ print_result.status = "ok"
    /\ margins_engine.label_margins_px.horizontal > 0
    /\ margins_engine.label_margins_px.vertical > 0
    /\ print_result.horizontal_offset_px < preview_result.horizontal_offset_px

(***************************************************************************)
(* C27: with the development no-margins switch on, a MarginsRenderEngine   *)
(* uses visible_horizontal_margin_px = 0 and min_width_px = 0 whatever its *)
(* arguments are, while its vertical labeler margin, the height of the     *)
(* canvas and vertical_offset_px are those of the engine built from the    *)
(* same arguments with the switch off.                                     *)
(***************************************************************************)
NoMarginsKeepsVerticalMargin ==
    dev_mode_no_margins =>
        LET switched_off == MarginsRenderEngine(margins_args, FALSE)
            SameVertically(mode, result) ==
                result.status = "ok" =>
                    LET other == render_with_meta(mode, switched_off,
                                                  payload_bitmap)
                    IN  /\ result.bitmap.height =
                               payload_bitmap.height
                                   + 2 * margins_args.labeler_margin_px.vertical
                        /\ result.vertical_offset_px =
                               margins_args.labeler_margin_px.vertical
                        /\ other.status = "ok" =>
                               /\ result.bitmap.height = other.bitmap.height
                               /\ result.vertical_offset_px =
                                      other.vertical_offset_px
        IN  /\ margins_engine.visible_horizontal_margin_px = 0
            /\ margins_engine.min_width_px = 0
            /\ margins_engine.label_margins_px.vertical =
                   switched_off.label_margins_px.vertical
            /\ SameVertically("preview", preview_result)
            /\ SameVertically("print", print_result)

\* The switch is on, every margin argument and the minimum width are set,
\* and both engines have rendered.
NoMarginsKeepsVerticalMarginWitness ==
    /\ dev_mode_no_margins
    /\ margins_args.visible_horizontal_margin_px > 0
    /\ margins_args.min_width_px > 0
    /\ margins_args.labeler_margin_px.horizontal > 0
    /\ margins_args.labeler_margin_px.vertical > 0
    /\ preview_result.status = "ok"
    /\ print_result.status = "ok"
    /\ preview_result.bitmap.height > payload_bitmap.height
    /\ render_with_meta("preview", MarginsRenderEngine(margins_args, FALSE),
                        payload_bitmap).status = "ok"

(***************************************************************************)
(* HorizontallyCombinedRenderEngine                                        *)
(***************************************************************************)
MaxChildren == 3
MaxChildWidthPx == 2
MaxPaddingPx == 2

ChildWidthsPx == (1 .. MaxChildWidthPx) \cup {3, 5, 7}
PaddingsPx == (0 .. MaxPaddingPx) \cup {4}

\* The bitmaps child engines render at a context height: most engines fill
\* the height, a picture may stay lower.
ChildBitmaps(height_px) == [width : ChildWidthsPx, height : 1 .. height_px]

SeqsUpTo(S, n) == UNION {[1 .. k -> S] : k \in 0 .. n}

RECURSIVE SumOfWidths(_)
\* sum(b.width for b in bitmaps)
SumOfWidths(bitmaps) ==
    IF bitmaps = <<>> THEN 0
    ELSE Head(bitmaps).width + SumOfWidths(Tail(bitmaps))

\* max(b.height for b in bitmaps)
MaxOfHeights(bitmaps) ==
    CHOOSE h \in {bitmaps[i].height : i \in DOMAIN bitmaps} :
        \A i \in DOMAIN bitmaps : bitmaps[i].height <= h

\* EmptyRenderEngine(width_px).render(context)
EmptyRenderEngine(width_px, ctx) == [width |-> width_px, height |-> ctx.height_px]

\* A slip that counts one padding per bitmap.
compute_total_width_PaddingPerBitmap(bitmaps, pad) ==
    SumOfWidths(bitmaps) + Len(bitmaps) * pad

\* _compute_total_width
compute_total_width(bitmaps, pad) ==
    LET number_of_bitmaps == Len(bitmaps)
        width_of_bitmaps == SumOfWidths(bitmaps)
        number_of_paddings == number_of_bitmaps - 1
        width_of_paddings == number_of_paddings * pad
    IN  width_of_bitmaps + width_of_paddings

\* A slip that composes a canvas even for a single bitmap.
HorizontallyCombinedRender_AlwaysComposes(engines, pad, ctx) ==
    LET bitmaps == IF engines = <<>> THEN <<EmptyRenderEngine(1, ctx)>>
                   ELSE engines
        label_height == MaxOfHeights(bitmaps)
        total_width == compute_total_width(bitmaps, pad)
    IN  [status |-> "ok",
         bitmap |-> [width |-> total_width, height |-> label_height],
         new_canvas |-> TRUE,
         pastes |->
             [i \in DOMAIN bitmaps |->
                 <<SumOfWidths(SubSeq(bitmaps, 1, i - 1)) + (i - 1) * pad,
                   (label_height - bitmaps[i].height) \div 2>>]]

\* HorizontallyCombinedRenderEngine.render: the merged bitmap, whether it is
\* a new canvas, and the boxes the children were pasted at
HorizontallyCombinedRender(engines, pad, ctx) ==
    LET bitmaps == IF engines = <<>> THEN <<EmptyRenderEngine(1, ctx)>>
                   ELSE engines
    IN  IF Len(bitmaps) = 1
        THEN [status |-> "ok", bitmap |-> bitmaps[1], new_canvas |-> FALSE,
              pastes |-> <<>>]
        ELSE LET label_height == MaxOfHeights(bitmaps)
                 total_width == compute_total_width(bitmaps, pad)
             IN  [status |-> "ok",
                  bitmap |-> [width |-> total_width, height |-> label_height],
                  new_canvas |-> TRUE,
                  pastes |->
                      [i \in DOMAIN bitmaps |->
                          <<SumOfWidths(SubSeq(bitmaps, 1, i - 1)) + (i - 1) * pad,
                            (label_height - bitmaps[i].height) \div 2>>]]

CombinedConstructed ==
    /\ context \in [height_px : PayloadHeightsPx]
    /\ render_engines \in SeqsUpTo(ChildBitmaps(context.height_px), MaxChildren)
    /\ padding \in PaddingsPx
    /\ combined_result = NoResult

\* HorizontallyCombinedRenderEngine.render(context)
RenderCombined ==
    /\ combined_result' = HorizontallyCombinedRender(render_engines, padding, context)
    /\ UNCHANGED <<context, render_engines, padding, tape_vars, margins_vars,
                   job_vars, devices_vars>>

CombinedNext == RenderCombined

CombinedInit ==
    CombinedConstructed /\ TapeIdle /\ MarginsIdle /\ JobIdle /\ DevicesIdle

SpecCombined == CombinedInit /\ [][CombinedNext]_vars

(***************************************************************************)
(* C28: HorizontallyCombinedRenderEngine.render with zero children returns *)
(* the bitmap of one default Empty engine (width 1, height = the context   *)
(* height), and with exactly one child returns that child's bitmap         *)
(* unchanged: no padding is added and no new canvas is created.            *)
(***************************************************************************)
CombinedOfFewerThanTwo ==
    combined_result # NoResult =>
        /\ render_engines = <<>> =>
               /\ combined_result.status = "ok"
               /\ combined_result.bitmap =
                      [width |-> 1, height |-> context.height_px]
               /\ ~combined_result.new_canvas
               /\ combined_result.pastes = <<>>
        /\ Len(render_engines) = 1 =>
               /\ combined_result.status = "ok"
               /\ combined_result.bitmap = render_engines[1]
               /\ ~combined_result.new_canvas
               /\ combined_result.pastes = <<>>

\* One child wider than the Empty bitmap, rendered with a padding set.
CombinedOfFewerThanTwoWitness ==
    /\ Len(render_engines) = 1
    /\ render_engines[1].width > 1
    /\ padding > 0
    /\ combined_result.status = "ok"
    /\ combined_result.bitmap.width = render_engines[1].width

(***************************************************************************)
(* C7: for every sequence of n >= 2 child engines and every padding, the   *)
(* rendered bitmap is as wide as the children together plus padding *      *)
(* (n - 1); widths 3, 5, 7 with padding 4 give 23.                         *)
(***************************************************************************)
CombinedWidthLaw ==
    (combined_result.status = "ok" /\ Len(render_engines) >= 2) =>
        /\ combined_result.bitmap.width =
               SumOfWidths(render_engines) + padding * (Len(render_engines) - 1)
        /\ ( /\ Len(render_engines) = 3
             /\ [i \in 1 .. 3 |-> render_engines[i].width] = <<3, 5, 7>>
             /\ padding = 4 ) => combined_result.bitmap.width = 23

\* Three children of widths 3, 5 and 7 combined with padding 4.
CombinedWidthWitness ==
    /\ combined_result.status = "ok"
    /\ Len(render_engines) = 3
    /\ [i \in 1 .. 3 |-> render_engines[i].width] = <<3, 5, 7>>
    /\ padding = 4
    /\ combined_result.bitmap.width = 23

(***************************************************************************)
(* LW550 structured commands                                               *)
(***************************************************************************)
MaxLabels == 2
MaxLabelSidePx == 2
MaxPrintDataLen == 4

\* Escape character preceding all commands
ESC == 27

\* ord() of the opcode letters
Ord == [s |-> 115, i |-> 105, n |-> 110, D |-> 68, G |-> 71, E |-> 69, Q |-> 81,
        A |-> 65, B |-> 66, C |-> 67, U |-> 85]

\* Whether struct.pack accepts value for an unsigned field of 1, 2 or 4 bytes
FitsUnsigned(value, nbytes) ==
    /\ value >= 0
    /\ CASE nbytes = 1 -> value < 256
         [] nbytes = 2 -> value < 65536
         [] nbytes = 4 -> value \div 16777216 < 256

\* A slip that packs the most significant byte first.
LittleEndian_MostSignificantFirst(value, nbytes) ==
    [k \in 1 .. nbytes |-> (value \div (256 ^ (nbytes - k))) % 256]

\* struct.pack("<...") of one unsigned field: least significant byte first
LittleEndian(value, nbytes) ==
    [k \in 1 .. nbytes |-> (value \div (256 ^ (k - 1))) % 256]

\* A slip that packs the least significant byte first.
BigEndian_LeastSignificantFirst(value, nbytes) ==
    [k \in 1 .. nbytes |-> (value \div (256 ^ (k - 1))) % 256]

\* struct.pack(">...") of one unsigned field: most significant byte first
BigEndian(value, nbytes) ==
    [k \in 1 .. nbytes |-> (value \div (256 ^ (nbytes - k))) % 256]

StructError == [status |-> "struct.error"]

Command(description, payload) ==
    [status |-> "ok", description |-> description, payload |-> payload]

\* DymoLabeler550Command.start_of_print_job
start_of_print_job(id) ==
    IF FitsUnsigned(id, 4)
    THEN Command(<<"Start of Print Job #", id>>,
                 <<ESC, Ord.s>> \o LittleEndian(id, 4))
    ELSE StructError

\* DymoLabeler550Command.select_graphics_output_mode
select_graphics_output_mode ==
    Command(<<"Select Graphics Output Mode">>, <<ESC, Ord.i>>)

\* DymoLabeler550Command.set_label_index
set_label_index(label_index) ==
    IF FitsUnsigned(label_index, 2)
    THEN Command(<<"Set Label Index #", label_index>>,
                 <<ESC, Ord.n>> \o LittleEndian(label_index, 2))
    ELSE StructError

\* DymoLabeler550Command.label_print_data
label_print_data(width, height, print_data) ==
    LET bpp == 1
        alignment == 2
    IN  IF Len(print_data) # width * height
        THEN [status |-> "AssertionError"]
        ELSE IF ~(FitsUnsigned(width, 4) /\ FitsUnsigned(height, 4))
        THEN StructError
        ELSE Command(<<"Label Print Data (Width, Height)", width, height>>,
                     <<ESC, Ord.D, bpp, alignment>> \o BigEndian(width, 4)
                         \o BigEndian(height, 4) \o print_data)

\* DymoLabeler550Command.feed_to_print_head
feed_to_print_head ==
    Command(<<"Feed to Print Head (Short Form Feed)">>, <<ESC, Ord.G>>)

\* DymoLabeler550Command.feed_to_tear_position
feed_to_tear_position ==
    Command(<<"Feed to Tear Position (Long Form Feed)">>, <<ESC, Ord.E>>)

\* DymoLabeler550Command.end_of_print_job
end_of_print_job == Command(<<"End of Print Job">>, <<ESC, Ord.Q>>)

\* DymoLabeler550CommandBatch._print_job_header: its commands
print_job_header(id) ==
    <<start_of_print_job(id), select_graphics_output_mode>>

\* DymoLabeler550CommandBatch._print_label: its commands
print_label(width, height, print_data, label_index, feed_to_cut) ==
    LET feed_command == IF feed_to_cut THEN feed_to_tear_position
                        ELSE feed_to_print_head
    IN  <<set_label_index(label_index),
          label_print_data(width, height, print_data),
          feed_command>>

RECURSIVE Flatten(_)
\* [command for batch in batches for command in batch.commands]
Flatten(batches) ==
    IF batches = <<>> THEN <<>>
    ELSE Head(batches) \o Flatten(Tail(batches))

\* A slip that feeds every label to the tear position.
LabelBatches_AlwaysTear(label_list) ==
    [k \in DOMAIN label_list |->
        print_label(label_list[k].width, label_list[k].height,
                    label_list[k].data, k - 1, TRUE)]

\* The loop of label_print_job: enumerate() counts from 0, sequences from 1.
LabelBatches(label_list) ==
    [k \in DOMAIN label_list |->
        LET label_id == k - 1
            is_last_label == label_id = Len(label_list) - 1
        IN  print_label(label_list[k].width, label_list[k].height,
                        label_list[k].data, label_id, is_last_label)]

\* DymoLabeler550CommandBatch.label_print_job: a command that cannot be
\* built raises out of the whole job.
label_print_job(label_list, id) ==
    LET batches == <<print_job_header(id)>> \o LabelBatches(label_list)
                       \o << <<end_of_print_job>> >>
        commands == Flatten(batches)
        failed == {k \in DOMAIN commands : commands[k].status # "ok"}
    IN  IF failed # {}
        THEN [status |-> commands[CHOOSE k \in failed :
                                      \A j \in failed : k <= j].status]
        ELSE [status |-> "ok",
              title |-> <<"Label Print Job #", id>>,
              commands |-> commands]

\* CommandBatch.payloads
Payloads(batch) == [k \in DOMAIN batch.commands |-> batch.commands[k].payload]

\* b"123456" and b"7890ABCDEF012345"
ExampleData1 == <<49, 50, 51, 52, 53, 54>>
ExampleData2 == <<55, 56, 57, 48, 65, 66, 67, 68, 69, 70, 48, 49, 50, 51, 52, 53>>

\* LabelData.__init__ asserts len(data) == width * height
LabelData(width, height, data) ==
    [width |-> width, height |-> height, data |-> data]

ExampleLabel1 == LabelData(2, 3, ExampleData1)
ExampleLabel2 == LabelData(4, 4, ExampleData2)

\* Labels of every small size, filled with bytes counting up from 0xFE and
\* wrapping around, and the two example labels.
LabelDatas ==
    {LabelData(w, h, [k \in 1 .. w * h |-> (254 + k - 1) % 256]) :
        w \in 1 .. MaxLabelSidePx, h \in 1 .. MaxLabelSidePx}
    \cup {ExampleLabel1, ExampleLabel2}

JobIds == {-1, 0, 1, 42, 256, 305419896}
LabelIndexes == {-1, 0, 1, 42, 255, 256, 65535, 65536}

JobConstructed ==
    /\ labels \in SeqsUpTo(LabelDatas, MaxLabels)
    /\ job_id \in JobIds
    /\ job_result = NoResult
    /\ command_result = NoResult

\* DymoLabeler550CommandBatch.label_print_job(labels, job_id)
LabelPrintJob ==
    /\ job_result' = label_print_job(labels, job_id)
    /\ UNCHANGED <<labels, job_id, command_result, tape_vars, margins_vars,
                   combined_vars, devices_vars>>

\* DymoLabeler550Command.start_of_print_job(job_id)
StartOfPrintJob ==
    /\ command_result' = [call |-> <<"start_of_print_job", job_id>>,
                          command |-> start_of_print_job(job_id)]
    /\ UNCHANGED <<labels, job_id, job_result, tape_vars, margins_vars,
                   combined_vars, devices_vars>>

\* DymoLabeler550Command.set_label_index(label_index)
SetLabelIndex ==
    /\ \E label_index \in LabelIndexes :
          command_result' = [call |-> <<"set_label_index", label_index>>,
                             command |-> set_label_index(label_index)]
    /\ UNCHANGED <<labels, job_id, job_result, tape_vars, margins_vars,
                   combined_vars, devices_vars>>

\* The bytes AA BB CC DD EE FF 00 11 of test_label_print_data
ExamplePrintData == <<170, 187, 204, 221, 238, 255, 0, 17>>

\* Print data of every small length, counting up from 0xFE and wrapping
\* around, and the example data
PrintDatas ==
    {[k \in 1 .. n |-> (254 + k - 1) % 256] : n \in 0 .. MaxPrintDataLen}
    \cup {ExamplePrintData}

\* DymoLabeler550Command.label_print_data(width, height, print_data), also
\* with data that does not fill width * height
LabelPrintData ==
    /\ \E width \in (-1 .. MaxLabelSidePx) \cup {4},
          height \in -1 .. MaxLabelSidePx, print_data \in PrintDatas :
          command_result' =
              [call |-> <<"label_print_data", width, height, print_data>>,
               command |-> label_print_data(width, height, print_data)]
    /\ UNCHANGED <<labels, job_id, job_result, tape_vars, margins_vars,
                   combined_vars, devices_vars>>

\* LabelData(width, height, data): construction, which asserts
\* len(data) == width * height
NewLabelData ==
    /\ \E width \in (0 .. MaxLabelSidePx) \cup {4},
          height \in 0 .. MaxLabelSidePx, data \in PrintDatas :
          command_result' =
              [call |-> <<"LabelData", width, height, data>>,
               command |-> IF Len(data) = width * height
                           THEN [status |-> "ok",
                                 label |-> LabelData(width, height, data)]
                           ELSE [status |-> "AssertionError"]]
    /\ UNCHANGED <<labels, job_id, job_result, tape_vars, margins_vars,
                   combined_vars, devices_vars>>

JobNext ==
    \/ LabelPrintJob
    \/ StartOfPrintJob
    \/ SetLabelIndex

JobInit ==
    JobConstructed /\ TapeIdle /\ MarginsIdle /\ CombinedIdle /\ DevicesIdle

SpecJob == JobInit /\ [][JobNext]_vars

(***************************************************************************)
(* C8: for every list of n >= 0 labels and every job id, label_print_job   *)
(* returns start-of-job(job_id), select-graphics-mode, then for each label *)
(* i in input order set-label-index(i), label-print-data(width_i,          *)
(* height_i, data_i) and one feed, then end-of-job; the feed is            *)
(* feed-to-tear-position for the last label and feed-to-print-head for     *)
(* every other one, and with no labels the job is start-of-job,            *)
(* select-graphics-mode, end-of-job.                                       *)
(***************************************************************************)
PrintJobCommandOrder ==
    job_result # NoResult =>
        /\ job_result.status = "ok" <=> job_id >= 0
        /\ job_result.status = "ok" =>
            LET commands == job_result.commands
                n == Len(labels)
                opcode(k) == SubSeq(commands[k].payload, 1, 2)
            IN  /\ Len(commands) = 3 * n + 3
                /\ commands[1] = start_of_print_job(job_id)
                /\ opcode(1) = <<27, 115>>
                /\ commands[2] = select_graphics_output_mode
                /\ opcode(2) = <<27, 105>>
                /\ \A k \in 1 .. n :
                      /\ commands[3 * k] = set_label_index(k - 1)
                      /\ opcode(3 * k) = <<27, 110>>
                      /\ commands[3 * k + 1] =
                             label_print_data(labels[k].width, labels[k].height,
                                              labels[k].data)
                      /\ opcode(3 * k + 1) = <<27, 68>>
                      /\ commands[3 * k + 2].payload =
                             IF k = n THEN <<27, 69>> ELSE <<27, 71>>
                      /\ commands[3 * k + 2] =
                             IF k = n THEN feed_to_tear_position
                             ELSE feed_to_print_head
                /\ commands[3 * n + 3] = end_of_print_job
                /\ opcode(3 * n + 3) = <<27, 81>>
                /\ n = 0 => [k \in 1 .. 3 |-> opcode(k)] =
                                <<<<27, 115>>, <<27, 105>>, <<27, 81>>>>

\* A job of two labels: a short feed between them, a long feed after the last.
PrintJobCommandOrderWitness ==
    /\ job_result.status = "ok"
    /\ Len(labels) = 2
    /\ labels[1] # labels[2]
    /\ job_result.commands[5] = feed_to_print_head
    /\ job_result.commands[8] = feed_to_tear_position

\* The job of the two example labels with job id 0 has been built.
ExampleJobBuilt ==
    /\ labels = <<ExampleLabel1, ExampleLabel2>>
    /\ job_id = 0
    /\ job_result # NoResult

CommandInit ==
    TapeIdle /\ MarginsIdle /\ CombinedIdle /\ JobIdle /\ DevicesIdle

\* The command builders called on their own, with no print job at hand
SpecCommand == CommandInit /\ [][LabelPrintData \/ NewLabelData]_vars

(***************************************************************************)
(* C11: label_print_data(width, height, data) is accepted only when        *)
(* len(data) = width * height, an assertion failing otherwise, and         *)
(* LabelData asserts the same at construction; an accepted call yields 1B  *)
(* 44, bits per pixel 01, alignment 02, the width as 4 bytes and the       *)
(* height as 4 bytes, most significant byte first (width 4, height 2 give  *)
(* 00000004 00000002), then the data unchanged.                            *)
(***************************************************************************)
LabelPrintDataContract ==
    command_result # NoResult =>
        LET op == command_result.call[1]
            command == command_result.command
        IN  op \in {"label_print_data", "LabelData"} =>
            LET width == command_result.call[2]
                height == command_result.call[3]
                data == command_result.call[4]
            IN  /\ command.status = "ok" => Len(data) = width * height
                /\ Len(data) # width * height =>
                       command.status = "AssertionError"
                /\ (op = "LabelData" /\ command.status = "ok") =>
                       command.label =
                           [width |-> width, height |-> height, data |-> data]
                /\ (op = "label_print_data" /\ command.status = "ok") =>
                       /\ width >= 0 /\ height >= 0
                       /\ command.payload =
                              <<27, 68, 1, 2,
                                0, 0, 0, width, 0, 0, 0, height>> \o data
                       /\ (width = 4 /\ height = 2) =>
                              SubSeq(command.payload, 5, 12) =
                                  <<0, 0, 0, 4, 0, 0, 0, 2>>

\* The example of width 4 and height 2 has been built, over its 8 bytes.
LabelPrintDataWitness ==
    /\ command_result # NoResult
    /\ command_result.call = <<"label_print_data", 4, 2, ExamplePrintData>>
    /\ command_result.command.status = "ok"
    /\ command_result.command.payload =
           <<27, 68, 1, 2, 0, 0, 0, 4, 0, 0, 0, 2,
             170, 187, 204, 221, 238, 255, 0, 17>>

(***************************************************************************)
(* LW550 commands with a response: Get SKU Information                     *)
(***************************************************************************)
MAGIC_NUMBER == 51894

\* tries=10 of the retry_call in CommandWithResponse.execute
RetryTries == 10

\* CommandGetSkuInformation._request
CommandGetSkuInformation_request ==
    Command(<<"Get SKU Information">>, <<ESC, Ord.U>>)

\* One unsigned field of struct.unpack("<...", response): nbytes bytes from
\* offset, least significant first
Unsigned(response, offset, nbytes) ==
    LET RECURSIVE value(_)
        value(k) == IF k = nbytes THEN 0
                    ELSE (response[offset + k + 1] * (256 ^ k)) + value(k + 1)
    IN  value(0)

\* A 64-byte SKU record: SKU "S0722540    ", brand DYMO, region GLOBAL,
\* material PAPER, die-cut white labels, counting up, produced on day 23
\* of 2024 at 10:45
ExampleSkuResponse ==
    LittleEndian(MAGIC_NUMBER, 2) \o <<0, 64>> \o LittleEndian(4660, 4)
    \o <<83, 48, 55, 50, 50, 53, 52, 48, 32, 32, 32, 32>>
    \o <<0, 255, 3, 1, 1, 0, 0, 0>>
    \o LittleEndian(1016, 2) \o LittleEndian(30, 2) \o LittleEndian(40, 2)
    \o LittleEndian(0, 2) \o LittleEndian(0, 2) \o LittleEndian(5, 2)
    \o LittleEndian(890, 2) \o LittleEndian(280, 2) \o LittleEndian(10, 2)
    \o LittleEndian(15, 2) \o LittleEndian(320, 2) \o LittleEndian(130, 2)
    \o LittleEndian(12000, 2) \o LittleEndian(3, 2)
    \o <<1, 0, 0, 0>> \o LittleEndian(2324, 2) \o LittleEndian(1045, 2)

\* The 64-byte responses of a device to repeated requests: all zero in the
\* fields the retrying looks at while the NFC is not ready, a SKU record,
\* or a record with another magic number or version
SkuResponses ==
    {LittleEndian(magic_number, 2) \o <<version>>
        \o SubSeq(ExampleSkuResponse, 4, 64) :
            magic_number \in {0, MAGIC_NUMBER, 1}, version \in {0, 1}}

\* A slip that gives up on a material type it does not know.
CommandGetSkuInformation_response_StrictMaterial(response) ==
    LET magic_number == Unsigned(response, 0, 2)
        version == Unsigned(response, 2, 1)
        material_type == Unsigned(response, 22, 1)
    IN  IF magic_number = 0
        THEN [status |-> "NfcNotReadyYetError"]
        ELSE IF magic_number # MAGIC_NUMBER \/ version # 0
        THEN [status |-> "AssertionError"]
        ELSE IF material_type \notin 0 .. 7
        THEN [status |-> "ValueError"]
        ELSE [status |-> "ok",
              record |-> [magic_number |-> magic_number,
                          version |-> version,
                          material_type |-> material_type]]

\* CommandGetSkuInformation._response: the fields are unpacked by position,
\* the magic number and the version are checked, and the record is built
\* field by field, the first conversion that fails ending the call. Enum
\* members are kept as their values; a datetime is kept as the fields that
\* strptime parses out of the digits.
CommandGetSkuInformation_response(response) ==
    LET field(offset, nbytes) == Unsigned(response, offset, nbytes)
        magic_number == field(0, 2)
        version == field(2, 1)
        sku_number == SubSeq(response, 9, 20)
        material_type == field(22, 1)
        \* DymoLabeler550MaterialType(material_type), CARD when unknown
        material_type_enum == IF material_type \in 0 .. 7
                              THEN material_type ELSE 0
        production_date == field(60, 2)
        production_time == field(62, 2)
        \* the first conversion of the constructor's arguments that raises
        failure ==
            IF \E k \in DOMAIN sku_number : sku_number[k] >= 128
            THEN "UnicodeDecodeError"
            ELSE IF \/ field(20, 1) # 0            \* DymoLabeler550BrandId
                    \/ field(21, 1) # 255          \* DymoLabeler550Region
                    \/ field(23, 1) \notin 0 .. 2  \* DymoLabeler550LabelType
                    \/ field(24, 1) \notin 0 .. 5  \* DymoLabeler550LabelColor
                    \/ field(25, 1) \notin 0 .. 1  \* ...ContentColor
                    \/ field(26, 1) \notin 0 .. 3  \* ...MarkerType
                    \/ field(56, 1) \notin 1 .. 2  \* ...CounterStrategy
                    \* strptime(f"{date:04}", "%j%y")
                    \/ production_date \div 100 \notin 1 .. 366
                    \* strptime(f"{time:04}", "%H%M")
                    \/ production_time > 2359
                    \/ production_time % 100 > 59
            THEN "ValueError"
            ELSE "none"
    IN  IF magic_number = 0
        THEN [status |-> "NfcNotReadyYetError"]
        ELSE IF magic_number # MAGIC_NUMBER \/ version # 0
        THEN [status |-> "AssertionError"]
        ELSE IF failure # "none"
        THEN [status |-> failure]
        ELSE [status |-> "ok",
              record |->
                [magic_number |-> magic_number,
                 version |-> version,
                 length |-> field(3, 1),
                 crc |-> field(4, 4),
                 sku_number |-> sku_number,
                 brand_id |-> field(20, 1),
                 region |-> field(21, 1),
                 material_type |-> material_type_enum,
                 label_type |-> field(23, 1),
                 label_color |-> field(24, 1),
                 content_color |-> field(25, 1),
                 marker_type |-> field(26, 1),
                 reserved_byte_27 |-> field(27, 1),
                 marker_pitch |-> field(28, 2),
                 marker1_width |-> field(30, 2),
                 marker1_to_start_of_label |-> field(32, 2),
                 marker2_width |-> field(34, 2),
                 marker2_offset |-> field(36, 2),
                 vertical_offset |-> field(38, 2),
                 label_length |-> field(40, 2),
                 label_width |-> field(42, 2),
                 printable_area_horizontal_offset |-> field(44, 2),
                 printable_area_vertical_offset |-> field(46, 2),
                 liner_width |-> field(48, 2),
                 total_label_count |-> field(50, 2),
                 total_length |-> field(52, 2),
                 counter_margin |-> field(54, 2),
                 counter_strategy |-> field(56, 1),
                 reserved_byte_57 |-> field(57, 1),
                 reserved_byte_58 |-> field(58, 1),
                 reserved_byte_59 |-> field(59, 1),
                 production_date |->
                     [day_of_year |-> production_date \div 100,
                      year |-> IF production_date % 100 < 69
                               THEN 2000 + (production_date % 100)
                               ELSE 1900 + (production_date % 100)],
                 production_time |->
                     [hour |-> production_time \div 100,
                      minute |-> production_time % 100]]]

\* A slip that never calls again.
retry_call_GivesUpAtOnce(exceptions, tries, outcome) ==
    [tries |-> tries, result |-> outcome]

\* A slip that allows one call more than tries.
retry_call_OneTryTooMany(exceptions, tries, outcome) ==
    IF outcome.status \in exceptions /\ tries # 0
    THEN [tries |-> tries - 1, result |-> NoResult]
    ELSE [tries |-> tries, result |-> outcome]

\* retry_call(f, exceptions=..., tries=...): what it does with the outcome
\* of one call of f while tries calls are still allowed. An exception of
\* the listed kinds uses up one try and, unless that was the last, the
\* call is made again after the delay; anything else ends the retrying.
retry_call(exceptions, tries, outcome) ==
    IF outcome.status \in exceptions
    THEN IF tries - 1 = 0
         THEN [tries |-> 0, result |-> outcome]
         ELSE [tries |-> tries - 1, result |-> NoResult]
    ELSE [tries |-> tries, result |-> outcome]

\* One call of CommandWithResponse._execute made by the retry_call of
\* CommandGetSkuInformation.execute: the request is written, 64 bytes are
\* read and decoded.
Execute ==
    /\ sku_result = NoResult
    /\ \E response \in SkuResponses :
          LET outcome == CommandGetSkuInformation_response(response)
              next == retry_call({"NfcNotReadyYetError"}, sku_tries, outcome)
          IN  /\ sku_wire' = sku_wire \o
                     <<[op |-> "write",
                        bytes |-> CommandGetSkuInformation_request.payload],
                       [op |-> "read", n |-> 64, response |-> response]>>
              /\ sku_tries' = next.tries
              /\ sku_result' = next.result
    /\ UNCHANGED <<response_result, tape_vars, margins_vars, combined_vars,
                   job_vars, functions_vars, ble_vars, usb_vars,
                   barcode_vars,
                   manager_vars>>

\* execute has been called: retry_call starts with all its tries, and
\* nothing has been written or read.
SkuInit ==
    /\ sku_tries = RetryTries
    /\ sku_wire = <<>>
    /\ sku_result = NoResult
    /\ response_result = NoResult
    /\ FunctionsIdle /\ BleIdle /\ UsbIdle /\ BarcodeIdle
    /\ TapeIdle /\ MarginsIdle /\ CombinedIdle /\ JobIdle /\ ManagerIdle

SpecSku == SkuInit /\ [][Execute]_vars

\* The attempts made so far: each wrote the request 1B 55 and then read 64
\* bytes.
SkuAttempts == Len(sku_wire) \div 2

SkuRoundTripsOnly ==
    /\ Len(sku_wire) = 2 * SkuAttempts
    /\ \A k \in 1 .. SkuAttempts :
          /\ sku_wire[2 * k - 1] = [op |-> "write", bytes |-> <<27, 85>>]
          /\ sku_wire[2 * k].op = "read"
          /\ sku_wire[2 * k].n = 64

\* The magic number read by attempt k
SkuMagicRead(k) == Unsigned(sku_wire[2 * k].response, 0, 2)

SkuGivesUpAfterTenAttempts ==
    /\ SkuAttempts <= 10
    /\ Cardinality({k \in DOMAIN sku_wire : sku_wire[k].op = "write"}) <= 10
    /\ (SkuAttempts = 10 /\ \A k \in 1 .. 10 : SkuMagicRead(k) = 0) =>
           sku_result = [status |-> "NfcNotReadyYetError"]
    /\ sku_result.status = "NfcNotReadyYetError" =>
           /\ SkuAttempts = 10
           /\ \A k \in 1 .. 10 : SkuMagicRead(k) = 0
           /\ sku_tries = 0
           /\ ~ENABLED Execute

\* Ten attempts have all read a zero magic number.
SkuGivesUpWitness ==
    /\ SkuAttempts = 10
    /\ \A k \in 1 .. 10 : SkuMagicRead(k) = 0
    /\ sku_result.status = "NfcNotReadyYetError"

(***************************************************************************)
(* The legacy LabelManager protocol: DymoLabelerFunctions                  *)
(*                                                                         *)
(* Each byte of a command is kept with the part it plays: "ESC", the       *)
(* opcode letter, "value" for an argument, "SYN" for the character that    *)
(* frames a line and "line" for a byte of line data. The code sees the     *)
(* byte only; the part serves to state what was written.                   *)
(***************************************************************************)
\* Synchronization character preceding uncompressed print data
SYN == 22

Bytes(part, values) ==
    [k \in DOMAIN values |-> [byte |-> values[k], part |-> part]]

\* [ESC, ord(letter), *args]
Instruction(letter, args) ==
    <<[byte |-> ESC, part |-> "ESC"], [byte |-> Ord[letter], part |-> letter]>>
        \o Bytes("value", args)

\* DymoLabelerFunctions.__init__
DymoLabelerFunctions(synwait) ==
    [cmd |-> <<>>, response |-> FALSE, bytesPerLine |-> {}, dotTab |-> 0,
     maxLines |-> 200, synwait |-> synwait]

\* DymoLabelerFunctions._max_bytes_per_line
max_bytes_per_line(size_mm) == (8 * size_mm) \div 12

\* DymoLabelerFunctions._reset_command
reset_command(self) == [self EXCEPT !.cmd = <<>>, !.response = FALSE]

\* DymoLabelerFunctions._build_command
build_command(self, cmd) == [self EXCEPT !.cmd = @ \o cmd]

\* DymoLabelerFunctions._status_request
status_request(self) ==
    [build_command(self, Instruction("A", <<>>)) EXCEPT !.response = TRUE]

\* DymoLabelerFunctions._dot_tab, for a value it accepts
dot_tab(self, value) ==
    [build_command(self, Instruction("B", <<value>>))
        EXCEPT !.dotTab = value, !.bytesPerLine = {}]

\* DymoLabelerFunctions._tape_color
tape_color(self, value) == build_command(self, Instruction("C", <<value>>))

\* DymoLabelerFunctions._bytes_per_line
bytes_per_line(self, value) ==
    IF self.bytesPerLine = {value} THEN self
    ELSE [build_command(self, Instruction("D", <<value>>))
             EXCEPT !.bytesPerLine = {value}]

\* DymoLabelerFunctions._line
line(self, value) ==
    build_command(bytes_per_line(self, Len(value)),
                  Bytes("SYN", <<SYN>>) \o Bytes("line", value))

\* DymoLabelerFunctions._chain_mark
chain_mark(self, size_mm) ==
    line(bytes_per_line(dot_tab(self, 0), max_bytes_per_line(size_mm)),
         [k \in 1 .. max_bytes_per_line(size_mm) |-> 153])

\* DymoLabelerFunctions._skip_lines, for a value it accepts
skip_lines(self, value) ==
    build_command(bytes_per_line(self, 0),
                  Bytes("SYN", [k \in 1 .. value |-> SYN]))

Write(what, bytes) == [op |-> "write", what |-> what, bytes |-> bytes]

Read(n) == [op |-> "read", what |-> "response", n |-> n]

RECURSIVE SendLoop(_, _)
\* The while loop of _send_command over the pending command: the writes and
\* reads it makes, and whether it ends. pos is counted from 0 as in the
\* code, and a slice cmd[:pos] with a negative pos counts from the end. An
\* iteration that leaves the pending command as it was repeats for ever.
SendLoop(cmd, synwait) ==
    IF cmd = <<>> THEN [events |-> <<>>, hangs |-> FALSE]
    ELSE IF synwait = {}
    THEN [events |-> <<Write("chunk", cmd)>>, hangs |-> FALSE]
    ELSE
        LET n == CHOOSE n \in synwait : TRUE
            syns == {k \in DOMAIN cmd : cmd[k].byte = SYN}
            pos == IF n = 0 THEN -1
                   ELSE IF Cardinality(syns) < n THEN Len(cmd)
                   ELSE (CHOOSE k \in syns :
                            Cardinality({j \in syns : j <= k}) = n) - 1
            split == IF pos < 0 THEN Len(cmd) + pos ELSE pos
            cmd_to_send == SubSeq(cmd, 1, split)
            cmd_rest == SubSeq(cmd, split + 1, Len(cmd))
            round == <<Write("status_request", Instruction("A", <<>>)),
                       Read(8),
                       Write("chunk", cmd_to_send)>>
        IN  IF cmd_rest = cmd THEN [events |-> round, hangs |-> TRUE]
            ELSE LET rest == SendLoop(cmd_rest, synwait)
                 IN  [events |-> round \o rest.events, hangs |-> rest.hangs]

\* A slip that leaves the pending command and the flag as they were.
send_command_KeepsPending(self) ==
    IF self.cmd = <<>> THEN [self |-> self, events |-> <<>>, status |-> "ok"]
    ELSE LET sent == SendLoop(self.cmd, self.synwait)
         IN  IF sent.hangs
             THEN [self |-> self, events |-> sent.events, status |-> "hangs"]
             ELSE [self |-> self,
                   events |-> sent.events \o
                       (IF self.response THEN <<Read(8)>> ELSE <<>>),
                   status |-> "ok"]

\* DymoLabelerFunctions._send_command: the object afterwards, the writes
\* and reads made and how the call ends
send_command(self) ==
    IF self.cmd = <<>> THEN [self |-> self, events |-> <<>>, status |-> "ok"]
    ELSE LET sent == SendLoop(self.cmd, self.synwait)
         IN  IF sent.hangs
             THEN [self |-> self, events |-> sent.events, status |-> "hangs"]
             ELSE [self |-> [self EXCEPT !.cmd = <<>>, !.response = FALSE],
                   events |-> sent.events \o
                       (IF self.response THEN <<Read(8)>> ELSE <<>>),
                   status |-> "ok"]

\* DymoLabelerFunctions._get_status
get_status(self) == send_command(status_request(self))

\* DymoLabelerFunctions._raw_print_label
raw_print_label(self, lines) ==
    LET RECURSIVE lines_loop(_, _, _)
        \* for line in lines[first .. last]: self._line(line); the range
        \* is taken half by half, the first half built before the second
        \* is begun, which keeps the evaluation shallow
        lines_loop(s, first, last) ==
            IF first > last THEN s
            ELSE IF first = last THEN line(s, lines[first])
            ELSE LET middle == (first + last) \div 2
                     half == lines_loop(s, first, middle)
                 IN  IF half.cmd = <<>> THEN half
                     ELSE lines_loop(half, middle + 1, last)
    IN  get_status(status_request(
            lines_loop(tape_color(self, 0), 1, Len(lines))))

RECURSIVE DymoLabelerFunctions_print_label(_, _)
\* A slip that begins the next batch one line late.
DymoLabelerFunctions_print_label_SkipsBoundaryLine(self, lines) ==
    IF Len(lines) > self.maxLines + 1
    THEN LET batch == SubSeq(lines, 1, self.maxLines)
             first == raw_print_label(self, batch)
             rest == DymoLabelerFunctions_print_label(
                         first.self,
                         SubSeq(lines, self.maxLines + 2, Len(lines)))
         IN  IF first.status # "ok"
             THEN [self |-> first.self, events |-> first.events,
                   batches |-> <<batch>>, status |-> first.status]
             ELSE [self |-> rest.self,
                   events |-> first.events \o rest.events,
                   batches |-> <<batch>> \o rest.batches,
                   status |-> rest.status]
    ELSE LET last == raw_print_label(self, lines)
         IN  [self |-> last.self, events |-> last.events,
              batches |-> <<lines>>, status |-> last.status]

\* DymoLabelerFunctions.print_label: the object afterwards, the writes and
\* reads made, the batches handed to _raw_print_label and how the call ends
DymoLabelerFunctions_print_label(self, lines) ==
    IF Len(lines) > self.maxLines + 1
    THEN LET batch == SubSeq(lines, 1, self.maxLines)
             first == raw_print_label(self, batch)
             rest == DymoLabelerFunctions_print_label(
                         first.self,
                         SubSeq(lines, self.maxLines + 1, Len(lines)))
         IN  IF first.status # "ok"
             THEN [self |-> first.self, events |-> first.events,
                   batches |-> <<batch>>, status |-> first.status]
             ELSE [self |-> rest.self,
                   events |-> first.events \o rest.events,
                   batches |-> <<batch>> \o rest.batches,
                   status |-> rest.status]
    ELSE LET last == raw_print_label(self, lines)
         IN  [self |-> last.self, events |-> last.events,
              batches |-> <<lines>>, status |-> last.status]

\* The calls of the mid-level functions on one object, each made when the
\* previous call has returned, up to MaxCalls of them.
MaxCalls == 4

\* What a call that returns leaves: the object, what it wrote and read
Returned(call, self, events, status) ==
    /\ call_result.status # "hangs"
    /\ call_result.calls < MaxCalls
    /\ functions' = self
    /\ wire' = wire \o events
    /\ call_result' = [status |-> status, call |-> call,
                       calls |-> call_result.calls + 1]
    /\ UNCHANGED <<device, bitmap, tape_vars, margins_vars, combined_vars,
                   job_vars, sku_vars, ble_vars, usb_vars, barcode_vars,
                   manager_vars>>

\* DymoLabelerFunctions._line(value)
Line ==
    \E value \in {<<SYN>>, <<1, 2>>} :
        Returned("_line", line(functions, value), <<>>, "ok")

\* DymoLabelerFunctions._skip_lines(value)
SkipLines ==
    \E value \in {0, 2} :
        IF value <= 0
        THEN Returned("_skip_lines", functions, <<>>, "ValueError")
        ELSE Returned("_skip_lines", skip_lines(functions, value), <<>>, "ok")

\* DymoLabelerFunctions._dot_tab(value, tape_size_mm)
DotTab ==
    \E value \in {-1, 1, 5}, size_mm \in {6} :
        IF value < 0 \/ value > max_bytes_per_line(size_mm)
        THEN Returned("_dot_tab", functions, <<>>, "ValueError")
        ELSE Returned("_dot_tab", dot_tab(functions, value), <<>>, "ok")

\* DymoLabelerFunctions._chain_mark(tape_size_mm)
ChainMark ==
    \E size_mm \in {6} :
        Returned("_chain_mark", chain_mark(functions, size_mm), <<>>, "ok")

\* DymoLabelerFunctions._status_request()
StatusRequest ==
    Returned("_status_request", status_request(functions), <<>>, "ok")

\* DymoLabelerFunctions._reset_command()
ResetCommand ==
    Returned("_reset_command", reset_command(functions), <<>>, "ok")

\* DymoLabelerFunctions._send_command(); a call whose loop never ends is
\* shown with the writes and reads of the iteration that repeats.
SendCommand ==
    LET sent == send_command(functions)
    IN  Returned("_send_command", sent.self, sent.events, sent.status)

FunctionsNext ==
    \/ Line
    \/ SkipLines
    \/ DotTab
    \/ ChainMark
    \/ ResetCommand
    \/ StatusRequest
    \/ SendCommand

\* A DymoLabelerFunctions object constructed without pacing or with a
\* synwait of 0 to 3 lines
FunctionsInit ==
    /\ functions \in {DymoLabelerFunctions(synwait) :
                         synwait \in {{}, {0}, {1}, {2}, {3}}}
    /\ wire = <<>>
    /\ device = "open"
    /\ bitmap = Unused
    /\ call_result = [status |-> "ok", call |-> "__init__", calls |-> 0]
    /\ SkuIdle /\ BleIdle /\ UsbIdle /\ BarcodeIdle
    /\ TapeIdle /\ MarginsIdle /\ CombinedIdle /\ JobIdle /\ ManagerIdle

SpecFunctions == FunctionsInit /\ [][FunctionsNext]_vars

(***************************************************************************)
(* DymoLabeler.print over the legacy protocol                              *)
(***************************************************************************)
POSSIBLE_USB_ERRORS == {"UsbDeviceError", "NoBackendError", "USBError"}

\* Label bitmaps as wide as the line counts around synwait and maxLines
\* and their multiples, 8 or 12 pixels high
Bitmaps ==
    [width : {0, 1, 2, 63, 64, 65, 199, 200, 201, 202, 401, 402},
     height : {8, 12}]

\* label_matrix of print: one row of ceil(height / 8) bytes for each column
\* of the bitmap, here with bytes that count up from 0x16
label_matrix(image) ==
    [i \in 1 .. image.width |->
        [j \in 1 .. (image.height + 7) \div 8 |-> (20 + i + j) % 256]]

\* A slip that sends the label again from the start after a failure.
DymoLabeler_print_RetriesOnce(dev, run, fail, error) ==
    IF dev = "none"
    THEN [wire |-> <<>>, device |-> dev,
          result |-> [status |-> "AssertionError"]]
    ELSE [wire |-> SubSeq(run.events, 1, fail - 1) \o run.events,
          device |-> "disposed",
          result |-> [status |-> "ok", batches |-> run.batches]]

\* The try block of DymoLabeler.print, where run is what print_label does
\* when no write or read fails, fail is the number of the write or read
\* that raises (0 when none does) and error is what it raises.
DymoLabeler_print(dev, run, fail, error) ==
    IF dev = "none"
    THEN [wire |-> <<>>, device |-> dev,
          result |-> [status |-> "AssertionError"]]
    ELSE IF fail > 0
    THEN [wire |-> SubSeq(run.events, 1, fail - 1), device |-> dev,
          result |-> [status |-> "DymoLabelerPrintError", error |-> error]]
    ELSE [wire |-> run.events, device |-> "disposed",
          result |-> [status |-> "ok", batches |-> run.batches]]

\* What print_label does with the label when no write or read fails
Transmission ==
    DymoLabelerFunctions_print_label(DymoLabelerFunctions({64}),
                                     label_matrix(bitmap))

\* DymoLabeler.print(bitmap), called once on a DymoLabeler whose device
\* set_device has set up, or that has none
PrintBitmap ==
    /\ call_result = NoResult
    /\ LET run == Transmission
       IN  \E fail \in 0 .. Len(run.events), error \in POSSIBLE_USB_ERRORS :
               LET done == DymoLabeler_print(device, run, fail, error)
               IN  /\ wire' = done.wire
                   /\ device' = done.device
                   /\ call_result' = done.result
    /\ UNCHANGED <<functions, bitmap, tape_vars, margins_vars, combined_vars,
                   job_vars, sku_vars, ble_vars, usb_vars, barcode_vars,
                   manager_vars>>

PrintInit ==
    /\ functions = Unused
    /\ wire = <<>>
    /\ device \in {"none", "open"}
    /\ bitmap \in Bitmaps
    /\ call_result = NoResult
    /\ SkuIdle /\ BleIdle /\ UsbIdle /\ BarcodeIdle
    /\ TapeIdle /\ MarginsIdle /\ CombinedIdle /\ JobIdle /\ ManagerIdle

SpecPrint == PrintInit /\ [][PrintBitmap]_vars

\* The bytes written in data chunks, in order
Sent ==
    Flatten([k \in DOMAIN wire |->
                IF wire[k].op = "write" /\ wire[k].what = "chunk"
                THEN wire[k].bytes ELSE <<>>])

\* Everything that crossed the endpoints, in order: each byte written, and
\* one item for each response read
Transmitted ==
    Flatten([k \in DOMAIN wire |->
                IF wire[k].op = "write" THEN wire[k].bytes
                ELSE <<[byte |-> wire[k].n, part |-> "read"]>>])

(***************************************************************************)
(* C14: with synwait = N, _send_command writes the 2-byte status request   *)
(* 1B 41 and reads an 8-byte response before each data chunk it writes,    *)
(* and no data chunk holds more than N SYN-framed lines.                   *)
(***************************************************************************)
ChunksPacedBySynwait ==
    functions.synwait # {} =>
        \A k \in DOMAIN wire :
            (wire[k].op = "write" /\ wire[k].what = "chunk") =>
                /\ k >= 3
                /\ wire[k - 2].op = "write"
                /\ wire[k - 2].what = "status_request"
                /\ [i \in 1 .. 2 |-> wire[k - 2].bytes[i].byte] = <<27, 65>>
                /\ wire[k - 1].op = "read"
                /\ wire[k - 1].n = 8
                /\ \A n \in functions.synwait :
                      Cardinality({i \in DOMAIN wire[k].bytes :
                                      wire[k].bytes[i].part = "SYN"}) <= n

(***************************************************************************)
(* C16: after any sequence of _line, _skip_lines, _dot_tab, _chain_mark,   *)
(* _reset_command and _send_command calls on one object, every SYN-framed  *)
(* line written to the device is preceded on the wire by a bytes-per-line  *)
(* declaration 1B 44 carrying that line's byte count, with no other 1B 44  *)
(* and no 1B 42 written between the declaration and the line.              *)
(***************************************************************************)
LinesDeclaredOnTheWire ==
    call_result.status # "hangs" =>
        LET sent == Sent
            byte_count(i) ==
                Cardinality({j \in i + 1 .. Len(sent) :
                                \A m \in i + 1 .. j : sent[m].part = "line"})
        IN  \A i \in DOMAIN sent :
                sent[i].part = "SYN" =>
                    \E j \in 1 .. i - 2 :
                        /\ sent[j].part = "D"
                        /\ sent[j + 1].byte = byte_count(i)
                        /\ \A m \in j + 1 .. i - 1 :
                              sent[m].part \notin {"D", "B"}

(***************************************************************************)
(* C15: for every label length, print_label hands the label to             *)
(* _raw_print_label in successive batches of at most 200 lines (maxLines), *)
(* and each batch ends with its own status poll.                           *)
(***************************************************************************)
BatchesOfAtMostMaxLines ==
    call_result.status = "ok" =>
        /\ \A k \in DOMAIN call_result.batches :
              Len(call_result.batches[k]) <= 200
        /\ Cardinality({k \in 2 .. Len(wire) :
                           /\ wire[k].op = "read"
                           /\ wire[k - 1].what = "chunk"})
               = Len(call_result.batches)

(***************************************************************************)
(* C17: during a legacy print every status request 1B 41 written to the    *)
(* device has its 8-byte response read before any further byte is written, *)
(* so that when print_label ends as many responses have been read as       *)
(* status requests were written.                                           *)
(***************************************************************************)
StatusRequestsAnsweredInTurn ==
    LET crossed == Transmitted
        count(part) ==
            Cardinality({i \in DOMAIN crossed : crossed[i].part = part})
    IN  /\ \A i \in 1 .. Len(crossed) - 1 :
              crossed[i].part = "A" => crossed[i + 1].part = "read"
        /\ call_result.status = "ok" => count("read") = count("A")

(***************************************************************************)
(* C18: a UsbDeviceError, NoBackendError or USBError raised at any write   *)
(* or read while print transmits a label reaches the caller as one         *)
(* DymoLabelerPrintError, and print retries nothing: what crossed the      *)
(* endpoints is the transmission up to the failing write or read, and      *)
(* nothing after it.                                                       *)
(***************************************************************************)
UsbErrorsBecomeOnePrintError ==
    (call_result # NoResult /\ device # "none") =>
        LET full == Transmission.events
        IN  /\ call_result.status \in {"ok", "DymoLabelerPrintError"}
            /\ Len(wire) <= Len(full)
            /\ wire = SubSeq(full, 1, Len(wire))
            /\ call_result.status = "ok" <=> wire = full
            /\ call_result.status = "DymoLabelerPrintError" =>
                   call_result.error \in
                       {"UsbDeviceError", "NoBackendError", "USBError"}

\* A USBError in the middle of a label of 65 lines, after the first chunk
\* of lines has been written.
UsbErrorsBecomeOnePrintErrorWitness ==
    /\ bitmap # Unused
    /\ bitmap.width = 65
    /\ call_result = [status |-> "DymoLabelerPrintError", error |-> "USBError"]
    /\ Len(wire) = 4

(***************************************************************************)
(* C19: whenever print finishes, whether it returns or raises              *)
(* DymoLabelerPrintError after a failure at any point of the transmission, *)
(* the device handle has been released: dispose was called.                *)
(***************************************************************************)
DeviceReleasedWhenPrintFinishes ==
    call_result.status \in {"ok", "DymoLabelerPrintError"} =>
        device = "disposed"

(***************************************************************************)
(* BleDevice: the header of a message                                      *)
(***************************************************************************)
MaxBodyLen == 60

END_BYTES == <<18, 52>>
START_BYTES == <<255, 240>> \o END_BYTES

RECURSIVE Sum(_)
\* sum(data)
Sum(data) == IF data = <<>> THEN 0 ELSE Head(data) + Sum(Tail(data))

\* A slip that keeps the whole sum.
checksum_WithoutMask(data) == Sum(data)

\* BleDevice.checksum: sum(data) & 0xFF
checksum(data) == Sum(data) % 256

\* BleDevice.get_header
get_header(body) ==
    LET body_size == LittleEndian(Len(body), 4)
        result == START_BYTES \o body_size
    IN  Append(result, checksum(result))

\* Bodies of every small length, of the lengths around one byte's worth
\* and of a length that fills three bytes of the size
Bodies ==
    {[k \in 1 .. n |-> (7 * k) % 256] :
        n \in (0 .. MaxBodyLen) \cup {203, 255, 256, 257, 66051}}

\* BleDevice.get_header(cmd), as _execute_command calls it
GetHeader ==
    /\ ble_header' = [status |-> "ok", header |-> get_header(ble_body)]
    /\ UNCHANGED <<ble_body, ble_client, ble_wire, ble_result, tape_vars,
                   margins_vars, combined_vars, job_vars, sku_vars,
                   functions_vars, usb_vars, barcode_vars,
                   manager_vars>>

BleInit ==
    /\ ble_body \in Bodies
    /\ ble_header = NoResult
    /\ ble_client = Unused
    /\ ble_wire = <<>>
    /\ ble_result = NoResult
    /\ SkuIdle /\ FunctionsIdle /\ UsbIdle /\ BarcodeIdle
    /\ TapeIdle /\ MarginsIdle /\ CombinedIdle /\ JobIdle /\ ManagerIdle

SpecBle == BleInit /\ [][GetHeader]_vars

(***************************************************************************)
(* C20: for every message body get_header returns the start marker FF F0   *)
(* 12 34, then the body length as 4 bytes least significant first, then    *)
(* one checksum byte equal to the sum of those 8 bytes modulo 256.         *)
(***************************************************************************)
BleHeaderLayout ==
    ble_header # NoResult =>
        LET header == ble_header.header
            n == Len(ble_body)
        IN  /\ Len(header) = 9
            /\ SubSeq(header, 1, 4) = <<255, 240, 18, 52>>
            /\ SubSeq(header, 5, 8) =
                   <<n % 256, (n \div 256) % 256, (n \div 65536) % 256,
                     n \div 16777216>>
            /\ header[9] = (header[1] + header[2] + header[3] + header[4]
                            + header[5] + header[6] + header[7] + header[8])
                               % 256
            /\ header[9] \in 0 .. 255

\* The header of a body of 0x010203 bytes: FF F0 12 34 03 02 01 00 3B.
BleHeaderWitness ==
    /\ Len(ble_body) = 66051
    /\ ble_header # NoResult
    /\ ble_header.header = <<255, 240, 18, 52, 3, 2, 1, 0, 59>>

(***************************************************************************)
(* BleDevice: sending a message                                            *)
(***************************************************************************)

\* itertools.batched(body, n): the body in pieces of n, the last one shorter
batched(body, n) ==
    [k \in 1 .. (Len(body) + n - 1) \div n |->
        SubSeq(body, (k - 1) * n + 1,
               IF k * n <= Len(body) THEN k * n ELSE Len(body))]

\* BleDevice.chunkify: chunks[-1] of an empty list raises IndexError
chunkify(body, chunk_size) ==
    LET chunks == batched(body, chunk_size)
    IN  IF chunks = <<>>
        THEN [status |-> "IndexError"]
        ELSE [status |-> "ok",
              chunks |-> [chunks EXCEPT ![Len(chunks)] = @ \o END_BYTES]]

\* BleDevice._execute_command(cmd, response) on a client. The transport
\* reports a dropped connection at the GATT operation number drop (0 when
\* it reports none): that write_gatt_char or read_gatt_char raises, and
\* the method has no handler for it.
BleDevice_execute_command(client, cmd, response, drop) ==
    LET reconnect == IF client.is_connected THEN <<>>
                     ELSE <<[op |-> "connect"]>>
        head == get_header(cmd)
        chunked == chunkify(cmd, client.mtu_size - 2)
        messages == <<head>> \o chunked.chunks
        operations ==
            [k \in DOMAIN messages |->
                [op |-> "write", bytes |-> messages[k]]]
            \o (IF response THEN <<[op |-> "read"]>> ELSE <<>>)
    IN  IF chunked.status # "ok"
        THEN [client |-> [client EXCEPT !.is_connected = TRUE],
              wire |-> reconnect,
              result |-> [status |-> chunked.status, response |-> response]]
        ELSE IF drop \in 1 .. Len(operations)
        THEN [client |-> [client EXCEPT !.is_connected = FALSE],
              wire |-> reconnect \o SubSeq(operations, 1, drop - 1),
              result |-> [status |-> "BleakError", response |-> response,
                          dropped_at |-> drop]]
        ELSE [client |-> [client EXCEPT !.is_connected = TRUE],
              wire |-> reconnect \o operations,
              result |-> [status |-> "ok", response |-> response]]

\* The commands sent: empty, short, and of the lengths around one and two
\* chunks of the transfer units below
SendBodies ==
    {[k \in 1 .. n |-> (7 * k) % 256] :
        n \in {0, 1, 2, 19, 20, 21, 22, 23, 41, 42, 43, 44, 45}}

\* BleakClient.mtu_size: the default of 23 and one more
MtuSizes == {23, 24}

\* BleDevice.execute_command(cmd, response=response), called once
ExecuteCommand ==
    /\ ble_result = NoResult
    /\ \E response \in BOOLEAN, drop \in 0 .. 5 :
           LET done == BleDevice_execute_command(ble_client, ble_body,
                                                 response, drop)
           IN  /\ drop = 0 \/ done.result.status = "BleakError"
               /\ ble_client' = done.client
               /\ ble_wire' = done.wire
               /\ ble_result' = done.result
    /\ UNCHANGED <<ble_body, ble_header, tape_vars, margins_vars,
                   combined_vars, job_vars, sku_vars, functions_vars,
                   usb_vars, barcode_vars,
                   manager_vars>>

\* A BleDevice after setup, whose connection may have been lost since
BleSendInit ==
    /\ ble_body \in SendBodies
    /\ ble_header = NoResult
    /\ ble_client \in [is_connected : BOOLEAN, mtu_size : MtuSizes]
    /\ ble_wire = <<>>
    /\ ble_result = NoResult
    /\ SkuIdle /\ FunctionsIdle /\ UsbIdle /\ BarcodeIdle
    /\ TapeIdle /\ MarginsIdle /\ CombinedIdle /\ JobIdle /\ ManagerIdle

SpecBleSend == BleSendInit /\ [][ExecuteCommand]_vars

MaxChunkSize == 8

\* BleDevice.chunkify(ble_body, chunk_size), called on its own
Chunkify ==
    /\ ble_result = NoResult
    /\ \E chunk_size \in 1 .. MaxChunkSize :
           ble_result' = [call |-> "chunkify", chunk_size |-> chunk_size,
                          result |-> chunkify(ble_body, chunk_size)]
    /\ UNCHANGED <<ble_body, ble_header, ble_client, ble_wire, tape_vars,
                   margins_vars, combined_vars, job_vars, sku_vars,
                   functions_vars, usb_vars, barcode_vars,
                   manager_vars>>

\* The bodies handed to chunkify: the empty one among them
ChunkifyInit ==
    /\ ble_body \in SendBodies
    /\ ble_header = NoResult
    /\ ble_client = Unused
    /\ ble_wire = <<>>
    /\ ble_result = NoResult
    /\ SkuIdle /\ FunctionsIdle /\ UsbIdle /\ BarcodeIdle
    /\ TapeIdle /\ MarginsIdle /\ CombinedIdle /\ JobIdle /\ ManagerIdle

SpecChunkify == ChunkifyInit /\ [][Chunkify]_vars

\* The bytes of the chunks written after the header, in order
BleChunks ==
    [k \in 1 .. Len(SelectSeq(ble_wire, LAMBDA e : e.op = "write")) - 1 |->
        SelectSeq(ble_wire, LAMBDA e : e.op = "write")[k + 1].bytes]

(***************************************************************************)
(* C21: for every non-empty body and every negotiated transfer unit, the   *)
(* chunks written after the header are each no larger than the transfer    *)
(* unit minus the framing overhead (the chunk size mtu_size - 2 that       *)
(* _execute_command asks of chunkify), they carry the body bytes in order, *)
(* and only the final chunk is suffixed with the end marker 12 34.         *)
(***************************************************************************)
ChunksFitTheTransferUnit ==
    (ble_result.status = "ok" /\ ble_body # <<>>) =>
        /\ \A k \in DOMAIN BleChunks :
              Len(BleChunks[k]) <= ble_client.mtu_size - 2
        /\ Flatten(BleChunks) = ble_body \o <<18, 52>>

(***************************************************************************)
(* C22: if the transport reports a dropped connection while a command is   *)
(* being sent, BleDevice reconnects and transmits the command again from   *)
(* its header: the call ends having connected again and then written the   *)
(* header and every chunk of the command, and never ends with a message    *)
(* sent in part.                                                           *)
(***************************************************************************)
DroppedCommandSentAgain ==
    ble_result.status \notin {"none", "IndexError"} =>
        LET whole == BleDevice_execute_command(
                         [ble_client EXCEPT !.is_connected = TRUE], ble_body,
                         ble_result.response, 0).wire
            n == Len(whole)
        IN  /\ ble_result.status = "ok"
            /\ Len(ble_wire) >= n
            /\ SubSeq(ble_wire, Len(ble_wire) - n + 1, Len(ble_wire)) = whole
            /\ Len(ble_wire) > n => ble_wire[Len(ble_wire) - n].op = "connect"

(***************************************************************************)
(* LW550 commands with a response: decoding the fixed-length records       *)
(***************************************************************************)

\* A 32-byte print engine status: idle, job 0, head OK, density 100 %,
\* media present and OK, SKU "S0722540", 250 labels left, EPS present,
\* head voltage OK
ExamplePrintEngineStatusResponse ==
    <<0>> \o LittleEndian(0, 4) \o LittleEndian(0, 2) \o <<0, 0, 100, 8>>
    \o <<83, 48, 55, 50, 50, 53, 52, 48, 0, 0, 0, 0>>
    \o LittleEndian(0, 4) \o LittleEndian(250, 2) \o <<1, 1, 0>>

\* CommandPrintEngineStatus._response: the two reserved bytes are asserted
\* to be zero before the record is built; sku_info is the bytes before the
\* first zero byte.
CommandPrintEngineStatus_response(response) ==
    LET field(offset, nbytes) == Unsigned(response, offset, nbytes)
        sku_bytes == SubSeq(response, 12, 23)
        sku_info ==
            SubSeq(sku_bytes, 1,
                   Cardinality({k \in DOMAIN sku_bytes :
                                   \A j \in 1 .. k : sku_bytes[j] # 0}))
        failure ==
            IF field(0, 1) \notin 0 .. 5        \* DymoLabeler550PrintStatus
            THEN "ValueError"
            ELSE IF field(8, 1) \notin 0 .. 2   \* ...PrintHeadStatus
            THEN "ValueError"
            ELSE IF field(10, 1) \notin 0 .. 10 \* ...MainBayStatus
            THEN "ValueError"
            ELSE IF \E k \in DOMAIN sku_info : sku_info[k] >= 128
            THEN "UnicodeDecodeError"
            ELSE IF field(29, 1) \notin 0 .. 1  \* DymoLabeler550EpsStatus
            THEN "ValueError"
            ELSE IF field(30, 1) \notin 0 .. 4  \* ...PrintHeadVoltage
            THEN "ValueError"
            ELSE "none"
    IN  IF field(7, 1) # 0 \/ field(31, 1) # 0
        THEN [status |-> "AssertionError"]
        ELSE IF failure # "none"
        THEN [status |-> failure]
        ELSE [status |-> "ok",
              record |-> [print_status |-> field(0, 1),
                          print_job_id |-> field(1, 4),
                          label_index |-> field(5, 2),
                          print_head_status |-> field(8, 1),
                          print_density |-> field(9, 1),
                          main_bay_status |-> field(10, 1),
                          sku_info |-> sku_info,
                          error_id |-> field(23, 4),
                          label_count |-> field(27, 2),
                          eps_status |-> field(29, 1),
                          print_head_voltage |-> field(30, 1)]]

\* CommandGetSkuInformation._response(response) on the example record with
\* some of its bytes replaced: the magic number, the version, the brand,
\* the material type and the reserved bytes 27, 57, 58 and 59
DecodeSkuInformation ==
    \E magic_number \in {0, MAGIC_NUMBER}, version \in {0, 1},
       brand_id \in {0, 1}, material_type \in {0, 3, 7, 8, 255},
       reserved \in [{28, 58, 59, 60} -> {0, 1}] :
        LET response ==
                LittleEndian(magic_number, 2) \o <<version>>
                \o [k \in 1 .. 61 |->
                       IF k + 3 \in DOMAIN reserved THEN reserved[k + 3]
                       ELSE IF k + 3 = 21 THEN brand_id
                       ELSE IF k + 3 = 23 THEN material_type
                       ELSE ExampleSkuResponse[k + 3]]
        IN  /\ response_result' =
                   [decoder |-> "CommandGetSkuInformation",
                    response |-> response,
                    result |-> CommandGetSkuInformation_response(response)]
            /\ UNCHANGED <<sku_tries, sku_wire, sku_result, tape_vars,
                           margins_vars, combined_vars, job_vars,
                           functions_vars, ble_vars, usb_vars, barcode_vars,
                           manager_vars>>

\* CommandPrintEngineStatus._response(response) on the example status with
\* some of its bytes replaced: the print status, the main bay status, the
\* head voltage and the reserved bytes 7 and 31
DecodePrintEngineStatus ==
    \E print_status \in {0, 5, 6}, main_bay_status \in {8, 11},
       print_head_voltage \in {1, 5}, reserved \in [{8, 32} -> {0, 1, 255}] :
        LET response ==
                [k \in 1 .. 32 |->
                    IF k \in DOMAIN reserved THEN reserved[k]
                    ELSE IF k = 1 THEN print_status
                    ELSE IF k = 11 THEN main_bay_status
                    ELSE IF k = 31 THEN print_head_voltage
                    ELSE ExamplePrintEngineStatusResponse[k]]
        IN  /\ response_result' =
                   [decoder |-> "CommandPrintEngineStatus",
                    response |-> response,
                    result |-> CommandPrintEngineStatus_response(response)]
            /\ UNCHANGED <<sku_tries, sku_wire, sku_result, tape_vars,
                           margins_vars, combined_vars, job_vars,
                           functions_vars, ble_vars, usb_vars, barcode_vars,
                           manager_vars>>

ResponseInit ==
    TapeIdle /\ MarginsIdle /\ CombinedIdle /\ JobIdle /\ DevicesIdle

\* The decoders called on their own, on what a device may have answered
SpecResponse ==
    ResponseInit /\ [][DecodeSkuInformation \/ DecodePrintEngineStatus]_vars

\* The reserved bytes of the response decoded last that are not zero
NonZeroReservedBytes ==
    LET reserved == IF response_result.decoder = "CommandGetSkuInformation"
                    THEN {27, 57, 58, 59} ELSE {7, 31}
    IN  {offset \in reserved : response_result.response[offset + 1] # 0}

(***************************************************************************)
(* C23: decoding a print-engine-status response or a SKU-information       *)
(* response in which any reserved byte is non-zero fails with an assertion *)
(* error instead of returning a record (a SKU response whose magic number  *)
(* is zero is answered with "not ready yet" before anything is decoded).   *)
(***************************************************************************)
ReservedBytesAssertedZero ==
    (response_result # NoResult /\ NonZeroReservedBytes # {}) =>
        \/ response_result.result.status = "AssertionError"
        \/ /\ response_result.decoder = "CommandGetSkuInformation"
           /\ Unsigned(response_result.response, 0, 2) = 0
           /\ response_result.result.status = "NfcNotReadyYetError"

(***************************************************************************)
(* C24: decoding a SKU-information response whose magic number is valid    *)
(* but whose material-type byte is not one of the known values gives what  *)
(* decoding the same response with the material-type byte of CARD gives:   *)
(* a record with the default material type CARD and every other field as   *)
(* decoded for a known material type, rather than an aborted read.         *)
(***************************************************************************)
UnknownMaterialTypeDefaults ==
    (/\ response_result # NoResult
     /\ response_result.decoder = "CommandGetSkuInformation"
     /\ Unsigned(response_result.response, 0, 2) = MAGIC_NUMBER
     /\ response_result.response[23] \notin 0 .. 7) =>
        LET response == response_result.response
            as_card == [response EXCEPT ![23] = 0]
            as_paper == [response EXCEPT ![23] = 3]
            every_other_field_valid ==
                /\ response[3] = 0
                /\ response[21] = 0
        IN  /\ response_result.result =
                   CommandGetSkuInformation_response(as_card)
            /\ every_other_field_valid =>
                   /\ response_result.result.status = "ok"
                   /\ response_result.result.record.material_type = 0
                   /\ response_result.result.record =
                          [CommandGetSkuInformation_response(as_paper).record
                              EXCEPT !.material_type = 0]
                   /\ response_result.result.record.sku_number =
                          <<83, 48, 55, 50, 50, 53, 52, 48, 32, 32, 32, 32>>
                   /\ response_result.result.record.label_length = 890

\* A record with material-type byte 0x08 decoded as CARD.
UnknownMaterialTypeDefaultsWitness ==
    /\ response_result # NoResult
    /\ response_result.decoder = "CommandGetSkuInformation"
    /\ response_result.response[23] = 8
    /\ response_result.result.status = "ok"
    /\ response_result.result.record.material_type = 0
    /\ response_result.result.record.total_label_count = 130

(***************************************************************************)
(* UsbDevice: setup                                                        *)
(***************************************************************************)
MaxSetupCalls == 3

\* USB devices as the system reports them: whether a configuration is
\* active, the classes of their interfaces, the directions of the endpoints
\* of an interface, and the kernel driver of the interface (detaching is not
\* implemented on every platform)
UsbDevs ==
    [configured : BOOLEAN,
     classes : SUBSET {"printer", "hid"},
     directions : SUBSET {"IN", "OUT"},
     kernel_driver : {"active", "inactive", "not implemented"}]

\* What can go wrong in the USB library during one call of setup: nothing,
\* set_configuration refused with errno 13 or 16, the device gone (every
\* call of the library raises USBError with errno 19), or the kernel driver
\* not letting go
UsbFaults == {"none", "EACCES", "EBUSY", "ENODEV", "detach"}

\* UsbDevice.setup on the fields self of the object: _set_configuration,
\* then _setup, with every USBError wrapped in a UsbDeviceError
UsbDevice_setup(self, dev, fault) ==
    LET failed(error, fields, dev_after) ==
            [self |-> fields, dev |-> dev_after,
             result |-> [status |-> "UsbDeviceError", error |-> error]]
        \* _set_configuration
        set_configuration ==
            IF fault = "ENODEV" THEN "USBError"
            ELSE IF dev.configured THEN "ok"
            ELSE CASE fault = "EACCES" -> "Access denied"
                   [] fault = "EBUSY" -> "busy"
                   [] OTHER -> "ok"
        configured == dev.configured \/ set_configuration = "ok"
        dev_configured == [dev EXCEPT !.configured = configured]
        intf == IF "printer" \in dev.classes THEN {"printer"}
                ELSE IF "hid" \in dev.classes THEN {"hid"}
                ELSE {}
        dev_detached ==
            IF dev.kernel_driver = "active"
            THEN [dev_configured EXCEPT !.kernel_driver = "inactive"]
            ELSE dev_configured
        endpoint(direction) ==
            IF direction \in dev.directions
            THEN {[intf |-> i, direction |-> direction] : i \in intf}
            ELSE {}
        none == [intf |-> {}, devin |-> {}, devout |-> {}]
    IN  IF set_configuration = "USBError"
        THEN failed("Failed setup USB device", self, dev)
        ELSE IF set_configuration = "Access denied"
        THEN failed("Access denied", self, dev)
        ELSE IF ~configured
        THEN \* get_active_configuration raises as it did a moment before
             failed("Failed setup USB device", self, dev)
        ELSE IF intf = {}
        THEN failed("Could not open a valid interface", self, dev_configured)
        ELSE IF dev.kernel_driver = "active" /\ fault = "detach"
        THEN failed("Failed setup USB device", self, dev_configured)
        ELSE IF endpoint("OUT") = {} \/ endpoint("IN") = {}
        THEN failed("The device endpoints not be found", none, dev_detached)
        ELSE [self |-> [intf |-> intf, devin |-> endpoint("IN"),
                        devout |-> endpoint("OUT")],
              dev |-> dev_detached,
              result |-> [status |-> "ok"]]

\* UsbDevice.setup(), as DymoLabeler.set_device calls it each time the
\* device is selected
Setup ==
    /\ Len(usb_calls) < MaxSetupCalls
    /\ \E fault \in UsbFaults :
          LET done == UsbDevice_setup(usb_device, usb_dev, fault)
          IN  /\ usb_device' = done.self
              /\ usb_dev' = done.dev
              /\ usb_calls' = Append(usb_calls,
                                     [status |-> done.result.status,
                                      intf |-> done.self.intf,
                                      devin |-> done.self.devin,
                                      devout |-> done.self.devout])
    /\ UNCHANGED <<tape_vars, margins_vars, combined_vars, job_vars,
                   sku_vars, functions_vars, ble_vars, barcode_vars,
                   manager_vars>>

\* UsbDevice.__init__: no interface and no endpoints yet
UsbInit ==
    /\ usb_dev \in UsbDevs
    /\ usb_device = [intf |-> {}, devin |-> {}, devout |-> {}]
    /\ usb_calls = <<>>
    /\ SkuIdle /\ FunctionsIdle /\ BleIdle /\ BarcodeIdle
    /\ TapeIdle /\ MarginsIdle /\ CombinedIdle /\ JobIdle /\ ManagerIdle

SpecUsb == UsbInit /\ [][Setup]_vars

(***************************************************************************)
(* C25: after any setup call that fails the device exposes no open         *)
(* endpoints (devin and devout are None), whatever earlier setup calls on  *)
(* the same object did; and a setup after a successful setup yields the    *)
(* same interface and endpoints.                                           *)
(***************************************************************************)
FailedSetupLeavesNoEndpoints ==
    /\ \A k \in DOMAIN usb_calls :
          usb_calls[k].status # "ok" =>
              usb_calls[k].devin = {} /\ usb_calls[k].devout = {}
    /\ \A j, k \in DOMAIN usb_calls :
          (usb_calls[j].status = "ok" /\ usb_calls[k].status = "ok") =>
              usb_calls[j] = usb_calls[k]

(***************************************************************************)
(* Barcodes: the runs of a module string                                   *)
(***************************************************************************)
MaxLineLen == 7

\* A BinaryString is a sequence of the characters "0" and "1".
BinaryStrings ==
    SeqsUpTo({"0", "1"}, MaxLineLen)
        \cup {<<"1", "1", "0", "1", "0", "1", "1", "1">>}

RECURSIVE RunsLoop(_, _, _, _, _)
\* The loop of _list_of_runs over the line: i (counted from 1) runs up to
\* stop, c counts the run so far, mlist is the list so far
RunsLoop(bits, i, c, mlist, stop) ==
    IF i > stop THEN mlist
    ELSE IF i + 1 <= Len(bits) /\ bits[i] = bits[i + 1]
    THEN RunsLoop(bits, i + 1, c + 1, mlist, stop)
    ELSE RunsLoop(bits, i + 1, 1,
                  Append(mlist, IF bits[i] = "1" THEN c ELSE 0 - c), stop)

\* A slip that stops the loop one character early, as the loop of the image
\* writer does on a line without its closing blank.
list_of_runs_StopsEarly(bits) == RunsLoop(bits, 1, 1, <<>>, Len(bits) - 1)

\* _list_of_runs
list_of_runs(bits) == RunsLoop(bits, 1, 1, <<>>, Len(bits))

\* _list_of_runs(line) on the module string of a barcode
ListOfRuns ==
    /\ runs_result = NoResult
    /\ runs_result' = [status |-> "ok", mlist |-> list_of_runs(barcode_line)]
    /\ UNCHANGED <<barcode_line, barcode_engine, render_results, tape_vars,
                   margins_vars, combined_vars, job_vars, sku_vars,
                   functions_vars, ble_vars, usb_vars,
                   manager_vars>>

RunsInit ==
    /\ barcode_line \in BinaryStrings
    /\ runs_result = NoResult
    /\ barcode_engine = Unused
    /\ render_results = <<>>
    /\ SkuIdle /\ FunctionsIdle /\ BleIdle /\ UsbIdle
    /\ TapeIdle /\ MarginsIdle /\ CombinedIdle /\ JobIdle /\ ManagerIdle

SpecRuns == RunsInit /\ [][ListOfRuns]_vars

RECURSIVE ExpandRuns(_)
\* The module string a list of runs stands for
ExpandRuns(mlist) ==
    IF mlist = <<>> THEN <<>>
    ELSE LET mod == Head(mlist)
             length == IF mod < 0 THEN 0 - mod ELSE mod
         IN  [k \in 1 .. length |-> IF mod < 0 THEN "0" ELSE "1"]
                 \o ExpandRuns(Tail(mlist))

RECURSIVE SumOfRunLengths(_)
SumOfRunLengths(mlist) ==
    IF mlist = <<>> THEN 0
    ELSE (IF Head(mlist) < 0 THEN 0 - Head(mlist) ELSE Head(mlist))
             + SumOfRunLengths(Tail(mlist))

(***************************************************************************)
(* C30: for every non-empty string of 0s and 1s, _list_of_runs returns the *)
(* lengths of its maximal runs in order, positive for runs of 1 and        *)
(* negative for runs of 0 ("11010111" gives [2, -1, 1, -1, 3]): the signs  *)
(* alternate, the absolute values sum to the length of the string, and     *)
(* expanding the runs gives back the string.                               *)
(***************************************************************************)
RunsOfModuleString ==
    (runs_result # NoResult /\ barcode_line # <<>>) =>
        LET mlist == runs_result.mlist
        IN  /\ mlist # <<>>
            /\ \A k \in DOMAIN mlist : mlist[k] # 0
            /\ \A k \in 1 .. Len(mlist) - 1 : (mlist[k] > 0) # (mlist[k + 1] > 0)
            /\ (mlist[1] > 0) = (barcode_line[1] = "1")
            /\ SumOfRunLengths(mlist) = Len(barcode_line)
            /\ ExpandRuns(mlist) = barcode_line
            /\ barcode_line = <<"1", "1", "0", "1", "0", "1", "1", "1">>
                   => mlist = <<2, -1, 1, -1, 3>>

\* The runs of "11010111" have been computed.
RunsOfModuleStringWitness ==
    /\ barcode_line = <<"1", "1", "0", "1", "0", "1", "1", "1">>
    /\ runs_result = [status |-> "ok", mlist |-> <<2, -1, 1, -1, 3>>]

(***************************************************************************)
(* Barcodes: rendering an engine again                                     *)
(***************************************************************************)
MaxRenders == 3

DEFAULT_BARCODE_TYPE == "code128"

\* BarcodeRenderEngine(content, barcode_type): the fields of the object
BarcodeRenderEngines ==
    [content : {"", " ", "1"}, barcode_type : {DEFAULT_BARCODE_TYPE, "ean"}]

\* RenderContext(height_px): heights that leave a module height of 0 and 1
RenderContexts == [height_px : {16, 17}]

\* The symbol encoder behind barcode_module.get(...).render(): it fails on
\* content the symbology does not take (the empty string for every type,
\* anything but digits for EAN) and gives the module string and the quiet
\* zone otherwise, the same ones for the same type and content. Short
\* module strings stand for the real ones.
SymbolEncoder(barcode_type, content) ==
    LET encoded(bits) == [status |-> "ok", line |-> bits, quiet_zone |-> 1]
    IN  CASE content = "" -> [status |-> "error"]
          [] barcode_type = "ean" /\ content # "1" -> [status |-> "error"]
          [] barcode_type = "ean" -> encoded(<<"1", "0", "1">>)
          [] content = " " -> encoded(<<"1", "1", "0", "1">>)
          [] OTHER -> encoded(<<"1", "0", "0", "1", "1">>)

\* Image.paste(im, box) on a canvas; pixels are the set ones, <<x, y>>
Paste(canvas, im, box) ==
    LET inside == {<<x, y>> \in (0 .. canvas.width - 1)
                                    \X (0 .. canvas.height - 1) :
                       /\ x - box[1] \in 0 .. im.width - 1
                       /\ y - box[2] \in 0 .. im.height - 1}
    IN  [canvas EXCEPT !.pixels =
             (@ \ inside)
                 \cup {xy \in inside :
                           <<xy[1] - box[1], xy[2] - box[2]>> \in im.pixels}]

RECURSIVE PaintModules(_, _, _, _)
\* The loop of convert_binary_string_to_barcode_image over mlist:
\* draw.rectangle paints both corners of the box it is given
PaintModules(image, mlist, xpos, module_height) ==
    IF mlist = <<>> THEN image
    ELSE LET mod == Head(mlist)
             module_width == 2
             vertical_margin == 8
             width == module_width * (IF mod < 0 THEN 0 - mod ELSE mod)
             box == {<<x, y>> \in (0 .. image.width - 1)
                                      \X (0 .. image.height - 1) :
                         /\ x \in xpos .. xpos + width
                         /\ y \in vertical_margin
                                      .. vertical_margin + module_height}
             painted == IF mod < 1 THEN image.pixels \ box
                        ELSE image.pixels \cup box
         IN  PaintModules([image EXCEPT !.pixels = painted], Tail(mlist),
                          xpos + width, module_height)

\* convert_binary_string_to_barcode_image
convert_binary_string_to_barcode_image(bits, quiet_zone, module_height) ==
    LET module_width == 2
        vertical_margin == 8
        \* _calculate_size
        width == 2 * quiet_zone + Len(bits) * module_width
        height == vertical_margin * 2 + module_height
        image == [width |-> width, height |-> height, pixels |-> {}]
    IN  PaintModules(image, list_of_runs(bits), quiet_zone, module_height)

\* A slip that replaces the empty content only after the encoder has seen it.
BarcodeRenderEngine_render_SubstitutesLate(self, ctx) ==
    LET content == IF self.barcode_type = DEFAULT_BARCODE_TYPE
                         /\ self.content = ""
                   THEN " " ELSE self.content
        code_obj == SymbolEncoder(self.barcode_type, self.content)
    IN  [self |-> [self EXCEPT !.content = content],
         result |->
             IF code_obj.status # "ok"
             THEN [status |-> "BarcodeRenderError"]
             ELSE [status |-> "ok",
                   bitmap |-> convert_binary_string_to_barcode_image(
                                  code_obj.line, code_obj.quiet_zone,
                                  ctx.height_px - 16)]]

\* BarcodeRenderEngine.render: the object afterwards and what the call
\* returns or raises
BarcodeRenderEngine_render(self, ctx) ==
    LET content == IF self.barcode_type = DEFAULT_BARCODE_TYPE
                         /\ self.content = ""
                   THEN " " ELSE self.content
        code_obj == SymbolEncoder(self.barcode_type, content)
    IN  [self |-> [self EXCEPT !.content = content],
         result |->
             IF code_obj.status # "ok"
             THEN [status |-> "BarcodeRenderError"]
             ELSE [status |-> "ok",
                   bitmap |-> convert_binary_string_to_barcode_image(
                                  code_obj.line, code_obj.quiet_zone,
                                  ctx.height_px - 16)]]

\* render of the engines built around one BarcodeRenderEngine: the barcode
\* itself, HorizontallyCombinedRenderEngine([barcode, EmptyRenderEngine()])
\* with padding 1, and the preview and print margins engines around that
EngineRender(kind, self, ctx) ==
    LET barcode == BarcodeRenderEngine_render(self, ctx)
        empty == [width |-> 1, height |-> EmptyRenderEngine(1, ctx).height,
                  pixels |-> {}]
        bitmaps == <<barcode.result.bitmap, empty>>
        merged == HorizontallyCombinedRender(bitmaps, 1, ctx)
        merged_bitmap ==
            LET canvas == [width |-> merged.bitmap.width,
                           height |-> merged.bitmap.height, pixels |-> {}]
            IN  Paste(Paste(canvas, bitmaps[1], merged.pastes[1]),
                      bitmaps[2], merged.pastes[2])
        engine == MarginsRenderEngine(
                      [justify |-> "center",
                       visible_horizontal_margin_px |-> 1,
                       labeler_margin_px |-> [horizontal |-> 1, vertical |-> 1],
                       max_width_px |-> {}, min_width_px |-> 0], FALSE)
        meta == render_with_meta(kind, engine, merged_bitmap)
    IN  IF kind = "barcode" \/ barcode.result.status # "ok" THEN barcode
        ELSE IF kind = "combined"
        THEN [self |-> barcode.self,
              result |-> [status |-> "ok", bitmap |-> merged_bitmap]]
        ELSE [self |-> barcode.self,
              result |->
                  IF meta.status # "ok" THEN meta
                  ELSE [status |-> "ok",
                        bitmap |->
                            Paste([width |-> meta.bitmap.width,
                                   height |-> meta.bitmap.height,
                                   pixels |-> {}],
                                  merged_bitmap, meta.paste_box),
                        horizontal_offset_px |-> meta.horizontal_offset_px,
                        vertical_offset_px |-> meta.vertical_offset_px]]

\* render(context), or render_with_meta(context) of a margins engine, on
\* one of the engines
Render ==
    /\ Len(render_results) < MaxRenders
    /\ \E kind \in {"barcode", "combined", "preview", "print"},
          ctx \in RenderContexts :
          LET done == EngineRender(kind, barcode_engine, ctx)
          IN  /\ barcode_engine' = done.self
              /\ render_results' =
                     Append(render_results,
                            [kind |-> kind, context |-> ctx,
                             content |-> barcode_engine.content,
                             result |-> done.result])
    /\ UNCHANGED <<barcode_line, runs_result, tape_vars, margins_vars,
                   combined_vars, job_vars, sku_vars, functions_vars,
                   ble_vars, usb_vars,
                   manager_vars>>

BarcodeInit ==
    /\ barcode_engine \in BarcodeRenderEngines
    /\ render_results = <<>>
    /\ barcode_line = <<>>
    /\ runs_result = NoResult
    /\ SkuIdle /\ FunctionsIdle /\ BleIdle /\ UsbIdle
    /\ TapeIdle /\ MarginsIdle /\ CombinedIdle /\ JobIdle /\ ManagerIdle

SpecBarcode == BarcodeInit /\ [][Render]_vars

(***************************************************************************)
(* C29: rendering the same render engine object with the same              *)
(* RenderContext twice yields identical results (same dimensions, same     *)
(* pixels, same offset metadata, or the same error), also for a barcode    *)
(* engine with empty content and for the HorizontallyCombined and Margins  *)
(* engines composed around it: the first render leaves no state that       *)
(* changes the second.                                                     *)
(***************************************************************************)
RenderTwiceIdentical ==
    \A j, k \in DOMAIN render_results :
        ( /\ render_results[j].kind = render_results[k].kind
          /\ render_results[j].context = render_results[k].context )
            => render_results[j].result = render_results[k].result

\* A margins engine around a barcode of the default type with empty content
\* rendered twice with the same context, the first render being the one
\* that replaced the content.
RenderTwiceIdenticalWitness ==
    /\ Len(render_results) >= 2
    /\ render_results[1].kind = "preview"
    /\ render_results[2].kind = "preview"
    /\ render_results[1].context = render_results[2].context
    /\ render_results[1].content = ""
    /\ render_results[2].content = " "
    /\ render_results[1].result.status = "ok"
    /\ render_results[1].result.bitmap.pixels # {}

(***************************************************************************)
(* C31: _send_command terminates for every built command and every        *)
(* synwait value (None or any integer >= 0): each iteration of its send    *)
(* loop removes at least one byte from the pending command, so it never    *)
(* polls the device for ever while sending empty chunks.                   *)
(***************************************************************************)
SendCommandTerminates ==
    /\ call_result.status # "hangs"
    /\ \A k \in DOMAIN wire :
          (wire[k].op = "write" /\ wire[k].what = "chunk") =>
              wire[k].bytes # <<>>

(***************************************************************************)
(* C32: whenever _send_command returns, the data chunks it wrote,          *)
(* concatenated in order and leaving out the interleaved status requests,  *)
(* are the built command byte for byte (also when line data contains the   *)
(* byte 0x16), and afterwards the pending command is empty and the         *)
(* response flag is cleared.                                               *)
(***************************************************************************)
ChunksAreTheBuiltCommand ==
    [][( /\ call_result'.call = "_send_command"
         /\ call_result'.status = "ok"
         /\ call_result'.calls = call_result.calls + 1 )
           => /\ Sent' = Sent \o functions.cmd
              /\ functions'.cmd = <<>>
              /\ functions'.response = FALSE
              /\ functions.response =>
                     wire'[Len(wire')] = Read(8)]_vars

\* A command of a line whose data is the byte 0x16 and a status request was
\* sent in two chunks with synwait 2, and the response was read.
ChunksAreTheBuiltCommandWitness ==
    /\ call_result.call = "_send_command"
    /\ call_result.status = "ok"
    /\ functions.synwait = {2}
    /\ functions.cmd = <<>>
    /\ Len(wire) = 7
    /\ wire[7] = Read(8)
    /\ wire[3].what = "chunk"
    /\ wire[6].what = "chunk"
    /\ \E i \in DOMAIN Sent : Sent[i].part = "line" /\ Sent[i].byte = SYN

(***************************************************************************)
(* C33: for every list of lines, the batches that print_label passes to    *)
(* _raw_print_label, concatenated in order, are the input list (every line *)
(* printed exactly once, in order, none dropped or repeated at a batch     *)
(* boundary), and no batch other than a wholly empty label is empty.       *)
(***************************************************************************)
BatchesAreTheLabel ==
    call_result.status = "ok" =>
        /\ Flatten(call_result.batches) = label_matrix(bitmap)
        /\ \A k \in DOMAIN call_result.batches :
              call_result.batches[k] = <<>> =>
                  /\ Len(call_result.batches) = 1
                  /\ bitmap.width = 0

\* A label of 402 lines was printed in three batches.
BatchesAreTheLabelWitness ==
    /\ call_result.status = "ok"
    /\ bitmap.width = 402
    /\ Len(call_result.batches) = 3
    /\ Len(call_result.batches[3]) = 2

(***************************************************************************)
(* C34: in print mode, for all valid inputs (visible margin >= 0, labeler  *)
(* margins >= 0, min width >= 0), the payload is pasted entirely inside    *)
(* the canvas: the horizontal_offset_px reported in the metadata is >= 0   *)
(* and horizontal_offset_px + payload width <= canvas width.               *)
(***************************************************************************)
PrintPayloadInsideCanvas ==
    print_result.status = "ok" =>
        /\ print_result.horizontal_offset_px >= 0
        /\ print_result.paste_box[1] = print_result.horizontal_offset_px
        /\ print_result.horizontal_offset_px + payload_bitmap.width
               <= print_result.bitmap.width

(***************************************************************************)
(* C35: for every body, including the empty body, and every chunk_size     *)
(* >= 1, BleDevice.chunkify returns a non-empty list of chunks whose       *)
(* concatenation is the body followed by the end marker 12 34, every chunk *)
(* except the last holding exactly chunk_size bytes.                       *)
(***************************************************************************)
ChunkifyFramesEveryBody ==
    ble_result # NoResult =>
        /\ ble_result.result.status = "ok"
        /\ ble_result.result.chunks # <<>>
        /\ Flatten(ble_result.result.chunks) = ble_body \o <<18, 52>>
        /\ \A k \in 1 .. Len(ble_result.result.chunks) - 1 :
              Len(ble_result.result.chunks[k]) = ble_result.chunk_size

(***************************************************************************)
(* C36: after any sequence of DymoLabeler.set_device calls (and direct     *)
(* tape_size_mm changes to supported sizes), tape_size_mm is a member of   *)
(* the current device configuration's supported tape sizes, so that the    *)
(* tape properties can be recomputed after a device change and             *)
(* tape_print_properties never raises.                                     *)
(***************************************************************************)
TapeSizeAlwaysSupported ==
    /\ tape_size_mm \in device_config.supported_tape_sizes_mm
    /\ tape_print_properties(device_config, tape_size_mm).status = "ok"


\* ---------------------------------------------------------------------------
\* DeviceManager.scan (lib/devices/device_manager.py)
\* ---------------------------------------------------------------------------

\* The devices of the supported vendor that can be on the bus. A device is
\* the usb.core.Device behind a UsbDevice: its address on the bus, its three
\* string descriptors, and whether the descriptors can be read (reading
\* them raises ValueError or USBError when they cannot). Two of the devices
\* carry the same descriptors and differ in their address only.
BusDevices ==
    { [address |-> 1, manufacturer |-> "DYMO", product |-> "PnP",
       serial_number |-> "01", readable |-> TRUE],
      [address |-> 2, manufacturer |-> "DYMO", product |-> "PnP",
       serial_number |-> "02", readable |-> TRUE],
      [address |-> 3, manufacturer |-> "DYMO", product |-> "PnP",
       serial_number |-> "01", readable |-> TRUE],
      [address |-> 4, manufacturer |-> "DYMO", product |-> "280",
       serial_number |-> "07", readable |-> FALSE] }

\* UsbDevice.hash: the three descriptors in one text, or None ({}) when a
\* descriptor cannot be read
UsbDevice_hash(self) ==
    IF self.readable
    THEN {"<" \o self.manufacturer \o "|" \o self.product \o "|"
              \o self.serial_number \o ">"}
    ELSE {}

\* The hashes in the order sorted() gives them
SortedHashes == <<"<DYMO|PnP|01>", "<DYMO|PnP|02>">>

\* The texts of the POSSIBLE_USB_ERRORS of the device manager, which
\* usb.core.find can raise: a NoBackendError and a USBError
ScanErrors == {"No backend available", "Access denied"}

\* The sequences without repetition over a set of devices: the orders in
\* which the set that supported_devices returns can be iterated
RECURSIVE IterationOrders(_)
IterationOrders(devs) ==
    IF devs = {} THEN {<<>>}
    ELSE UNION { { <<d>> \o rest : rest \in IterationOrders(devs \ {d}) }
                 : d \in devs }

\* What UsbDevice.supported_devices does in one scan: it raises one of the
\* errors, or returns some of the devices of the bus
supported_devices ==
    [kind : {"raised"}, text : ScanErrors]
        \cup { [kind |-> "found", devs |-> order] :
                 order \in UNION { IterationOrders(devs) :
                                     devs \in SUBSET BusDevices } }

\* The hashes of the devices of a detection
DetectedHashes(detection) ==
    IF detection.kind = "raised" THEN {}
    ELSE UNION { UsbDevice_hash(detection.devs[i]) :
                   i \in DOMAIN detection.devs }

\* {dev.hash: dev for dev in ... if dev.hash}: the devices that have a hash,
\* each under its hash; of two devices with one hash the later one stays
DictByHash(devs) ==
    [h \in UNION { UsbDevice_hash(devs[i]) : i \in DOMAIN devs } |->
        devs[CHOOSE i \in DOMAIN devs :
                /\ UsbDevice_hash(devs[i]) = {h}
                /\ \A j \in DOMAIN devs :
                      j > i => UsbDevice_hash(devs[j]) # {h}]]

\* A scan that raises for an empty detection but keeps the devices it held
DeviceManager_scan_KeepsOnEmpty(self, detection) ==
    IF detection.kind = "raised"
    THEN [self |-> <<>>, status |-> "DeviceManagerError", changed |-> FALSE,
          message |-> "Failed scanning devices: " \o detection.text]
    ELSE LET cur == DictByHash(detection.devs)
             prev_set == DOMAIN self
             cur_set == DOMAIN cur
         IN  IF Cardinality(cur_set) = 0
             THEN [self |-> self, status |-> "DeviceManagerError",
                   changed |-> FALSE,
                   message |-> "No supported devices found"]
             ELSE [self |-> [h \in cur_set |->
                               IF h \in prev_set THEN self[h] ELSE cur[h]],
                   status |-> "ok", changed |-> prev_set # cur_set,
                   message |-> ""]

\* DeviceManager.scan: self is the dict _devices. A failed detection and a
\* detection without a hashed device clear the dict and raise
\* DeviceManagerError; otherwise the hashes no longer detected are popped,
\* the new hashes are added with their devices, the hashes that stay keep
\* the device they had, and the result tells whether the keys differ.
DeviceManager_scan(self, detection) ==
    IF detection.kind = "raised"
    THEN [self |-> <<>>, status |-> "DeviceManagerError", changed |-> FALSE,
          message |-> "Failed scanning devices: " \o detection.text]
    ELSE LET cur == DictByHash(detection.devs)
             prev_set == DOMAIN self
             cur_set == DOMAIN cur
         IN  IF Cardinality(cur_set) = 0
             THEN [self |-> <<>>, status |-> "DeviceManagerError",
                   changed |-> FALSE,
                   message |-> "No supported devices found"]
             ELSE [self |-> [h \in cur_set |->
                               IF h \in prev_set THEN self[h] ELSE cur[h]],
                   status |-> "ok", changed |-> prev_set # cur_set,
                   message |-> ""]

\* DeviceManager.devices: the devices held, sorted by their hash
DeviceManager_devices(self) ==
    LET keys == SelectSeq(SortedHashes, LAMBDA h : h \in DOMAIN self)
    IN  [i \in DOMAIN keys |-> self[keys[i]]]

\* One call of scan on the manager
Scan ==
    \E detection \in supported_devices :
        LET done == DeviceManager_scan(dm_devices, detection)
        IN  /\ dm_devices' = done.self
            /\ scan_result' = [status |-> done.status,
                               changed |-> done.changed,
                               message |-> done.message,
                               prev |-> DOMAIN dm_devices,
                               detected |-> detection]
            /\ UNCHANGED <<last_scan_error, refresh_result>>
            /\ UNCHANGED <<tape_vars, margins_vars, combined_vars, job_vars,
                           sku_vars, functions_vars, ble_vars, usb_vars,
                           barcode_vars>>

\* DeviceManager(): no device held
ScanInit ==
    /\ dm_devices = <<>>
    /\ scan_result = NoResult
    /\ last_scan_error = {}
    /\ refresh_result = Unused
    /\ TapeIdle /\ MarginsIdle /\ CombinedIdle /\ JobIdle
    /\ SkuIdle /\ FunctionsIdle /\ BleIdle /\ UsbIdle /\ BarcodeIdle

SpecScan == ScanInit /\ [][Scan]_vars

\* C37: after any sequence of scans, when the last scan returned the
\* manager holds exactly the hashes of the devices that scan detected, and
\* the flag it returned is true exactly when these differ from the hashes
\* held before; when the last scan raised DeviceManagerError (the detection
\* failed or found no hashed device) the manager holds nothing.
ScanHoldsTheDetected ==
    scan_result.status # "none" =>
        LET detected == DetectedHashes(scan_result.detected)
        IN  IF scan_result.status = "ok"
            THEN /\ DOMAIN dm_devices = detected
                 /\ detected # {}
                 /\ scan_result.changed = (detected # scan_result.prev)
                 /\ \A h \in detected : UsbDevice_hash(dm_devices[h]) = {h}
            ELSE /\ scan_result.status = "DeviceManagerError"
                 /\ detected = {}
                 /\ DOMAIN dm_devices = {}

\* A scan that returned with one hash gone and one hash new, among devices
\* of which one has no hash and two share a hash
ScanHoldsTheDetectedWitness ==
    /\ scan_result.status = "ok"
    /\ scan_result.changed
    /\ scan_result.prev = {"<DYMO|PnP|02>"}
    /\ DOMAIN dm_devices = {"<DYMO|PnP|01>"}
    /\ Len(scan_result.detected.devs) = 3


\* ---------------------------------------------------------------------------
\* OnlineDeviceManager._refresh_devices (lib/devices/online_device_manager.py)
\* ---------------------------------------------------------------------------

\* str() of the last scan error: the message of a DeviceManagerError, and
\* "None" for None
str(error) ==
    IF error = {} THEN "None" ELSE (CHOOSE e \in error : TRUE).message

\* The text the device selector shows for the last scan error: nothing for
\* None
last_scan_error_text(error) ==
    IF error = {} THEN "" ELSE (CHOOSE e \in error : TRUE).message

\* A refresh that announces a scan error only when one appears or goes
refresh_devices_ComparesPresence(self, detection) ==
    LET prev == self.last_scan_error
        done == DeviceManager_scan(self.device_manager, detection)
        last == IF done.status = "ok" THEN {}
                ELSE {[message |-> done.message]}
    IN  [self |-> [device_manager |-> done.self, last_scan_error |-> last],
         scan |-> done,
         emitted |->
             (IF done.status = "ok" /\ done.changed
              THEN <<"devices_changed_signal">> ELSE <<>>)
             \o (IF (prev = {}) # (last = {})
                 THEN <<"devices_changed_signal",
                        "last_scan_error_changed_signal">>
                 ELSE <<>>)]

\* OnlineDeviceManager._refresh_devices: scan; a scan that returns clears
\* the last scan error and emits devices_changed_signal when it reports a
\* change, a scan that raises DeviceManagerError leaves its error as the
\* last one; then, when the text of the last error is another than before,
\* both signals are emitted. The result carries the signals in the order
\* of their emission.
refresh_devices(self, detection) ==
    LET prev == self.last_scan_error
        done == DeviceManager_scan(self.device_manager, detection)
        last == IF done.status = "ok" THEN {}
                ELSE {[message |-> done.message]}
    IN  [self |-> [device_manager |-> done.self, last_scan_error |-> last],
         scan |-> done,
         emitted |->
             (IF done.status = "ok" /\ done.changed
              THEN <<"devices_changed_signal">> ELSE <<>>)
             \o (IF str(prev) # str(last)
                 THEN <<"devices_changed_signal",
                        "last_scan_error_changed_signal">>
                 ELSE <<>>)]

\* One refresh: the call in _init_timers or a timeout of the timer
Refresh ==
    \E detection \in supported_devices :
        LET done == refresh_devices([device_manager |-> dm_devices,
                                    last_scan_error |-> last_scan_error],
                                   detection)
        IN  /\ dm_devices' = done.self.device_manager
            /\ last_scan_error' = done.self.last_scan_error
            /\ scan_result' = [status |-> done.scan.status,
                               changed |-> done.scan.changed,
                               message |-> done.scan.message,
                               prev |-> DOMAIN dm_devices,
                               detected |-> detection]
            /\ refresh_result' =
                   [status |-> "done",
                    devices_before |-> DeviceManager_devices(dm_devices),
                    devices_after |->
                        DeviceManager_devices(done.self.device_manager),
                    error_before |-> last_scan_error,
                    error_after |-> done.self.last_scan_error,
                    emitted |-> done.emitted]
            /\ UNCHANGED <<tape_vars, margins_vars, combined_vars, job_vars,
                           sku_vars, functions_vars, ble_vars, usb_vars,
                           barcode_vars>>

\* OnlineDeviceManager() before the refresh its constructor makes: a new
\* DeviceManager and no last scan error
RefreshInit ==
    /\ dm_devices = <<>>
    /\ scan_result = NoResult
    /\ last_scan_error = {}
    /\ refresh_result = NoResult
    /\ TapeIdle /\ MarginsIdle /\ CombinedIdle /\ JobIdle
    /\ SkuIdle /\ FunctionsIdle /\ BleIdle /\ UsbIdle /\ BarcodeIdle

SpecRefresh == RefreshInit /\ [][Refresh]_vars

\* The signals of a sequence of emissions
Emitted(emitted) == { emitted[i] : i \in DOMAIN emitted }

\* C38: for every refresh, when the list of devices held after it differs
\* from the list held before it, devices_changed_signal was emitted during
\* the refresh; and last_scan_error_changed_signal was emitted exactly when
\* the text of the last scan error is another than before the refresh.
RefreshAnnouncesChanges ==
    refresh_result.status = "done" =>
        /\ refresh_result.devices_before # refresh_result.devices_after
               => "devices_changed_signal" \in Emitted(refresh_result.emitted)
        /\ "last_scan_error_changed_signal"
               \in Emitted(refresh_result.emitted)
           <=> last_scan_error_text(refresh_result.error_before)
                   # last_scan_error_text(refresh_result.error_after)

\* A refresh that found an error of another text than the one before, with
\* no device held before or after
RefreshAnnouncesChangesWitness ==
    /\ refresh_result.status = "done"
    /\ refresh_result.error_before # {}
    /\ refresh_result.error_after # {}
    /\ refresh_result.error_before # refresh_result.error_after
    /\ refresh_result.emitted
           = <<"devices_changed_signal", "last_scan_error_changed_signal">>

====
